---- MODULE Spec2Model ----
(***************************************************************************)
(* Ownership, lifecycle and locking model of the rclrs client library:     *)
(* Context, Node, Publisher, Subscription and the handles that wrap their  *)
(* native (rcl) resources.                                                 *)
(*                                                                         *)
(* Spec      one application thread creating, cloning and dropping the     *)
(*           objects in any order; every handler is one atomic action.     *)
(* SpecConc  several threads operating on an existing context, node,       *)
(*           publishers and subscriptions; a handler is split where it     *)
(*           acquires a mutex and where its native call returns.           *)
(***************************************************************************)
EXTENDS Integers, Sequences, FiniteSets, TLC

\* ------------------------------------------------------------------ bounds
MaxContexts == 1
MaxNodes == 2
MaxPublishers == 1
MaxSubscriptions == 2
MaxHandles == 2
NumThreads == 2
MaxNsLen == 2
MaxDepth == 2
MaxStrLen == 3
MaxBound == 3
\* Subscriptions created in the lifecycle specification.
MaxLifeSubscriptions == 1

Ctxs == 1..MaxContexts
Nodes == 1..MaxNodes
Pubs == 1..MaxPublishers
Subs == 1..MaxSubscriptions
Threads == 1..NumThreads
LifeSubs == 1..MaxLifeSubscriptions

\* ------------------------------------------------- native status codes
\* rcl_ret_t values, by the names RclReturnCode gives them.
InitFailures == {"InvalidArgument", "AlreadyInit", "BadAlloc", "Error"}
NodeInitFailures == InitFailures \cup {"NodeInvalidName", "NodeInvalidNamespace"}
EndpointInitFailures == InitFailures \cup {"NodeInvalid", "TopicNameInvalid"}
PublishFailures == {"PublisherInvalid", "Error"}
TakeFailures == {"SubscriptionTakeFailed", "SubscriptionInvalid", "InvalidArgument", "Error"}

VARIABLES
    ctxObj,       \* [Ctxs -> BOOLEAN]  the application holds the Context object
    ctxStrong,    \* [Ctxs -> Int]      strong count of Arc<ContextHandle>
    ctxState,     \* [Ctxs -> {"none","active","shutdown","zero_shutdown"}]
    nodeObj,      \* [Nodes -> BOOLEAN] the application holds the Node object
    nodeStrong,   \* [Nodes -> Int]     strong count of Arc<NodeHandle>
    nodeState,    \* [Nodes -> {"none","active","finalized"}]
    nodeCtx,      \* [Nodes -> Ctxs \cup {0}] context the node was created under
    nodeNs,       \* [Nodes -> [arg, eff]] namespace given and namespace of the node
    nodeSubs,     \* [Nodes -> Seq(Subs)] Node::subscriptions (weak entries)
    pubObj,       \* [Pubs -> BOOLEAN]  the application holds the Publisher
    pubState,     \* [Pubs -> {"none","active","finalized"}]
    pubNode,      \* [Pubs -> Nodes \cup {0}]
    subApp,       \* [Subs -> Nat]  Arc<Subscription> handles the application holds
    subStrong,    \* [Subs -> Int]  strong count of Arc<Subscription>
    subState,     \* [Subs -> {"none","active","finalized"}]
    subNode,      \* [Subs -> Nodes \cup {0}]
    nodeFiniAt,   \* [Nodes -> "none" | the context's state when rcl_node_fini ran]
    pubFiniAt,    \* [Pubs -> "none" | the node's state when rcl_publisher_fini ran]
    subFiniAt,    \* [Subs -> "none" | the node's state when rcl_subscription_fini ran]
    lastOp,       \* Spec: what the last operation did and returned
    pc,           \* SpecConc: [Threads -> position of the thread in its handler]
    tgt,          \* SpecConc: [Threads -> the object the handler works on]
    ctxLock,      \* [Ctxs -> 0 | thread holding ContextHandle's mutex]
    nodeLock,     \* [Nodes -> 0 | thread holding NodeHandle's mutex]
    pubLock,      \* [Pubs -> 0 | thread holding PublisherHandle::handle]
    subLock,      \* [Subs -> 0 | thread holding SubscriptionHandle::handle]
    cbLock,       \* [Subs -> 0 | thread holding Subscription::callback]
    msgOutstanding \* get_native_message calls minus destroy_native_message calls

ctxVars == <<ctxObj, ctxStrong, ctxState>>
nodeVars == <<nodeObj, nodeStrong, nodeState, nodeCtx, nodeNs, nodeSubs>>
pubVars == <<pubObj, pubState, pubNode>>
subVars == <<subApp, subStrong, subState, subNode>>
finiVars == <<nodeFiniAt, pubFiniAt, subFiniAt>>
lockVars == <<ctxLock, nodeLock, pubLock, subLock, cbLock>>
threadVars == <<pc, tgt, lockVars>>

vars == <<ctxVars, nodeVars, pubVars, subVars, finiVars, lastOp, msgOutstanding, msgOutstanding, threadVars>>

\* ------------------------------------------------------------- results
NoSubs == {}
Op(name, obj, native, tag, val, took, called) ==
    [op |-> name, obj |-> obj, native |-> native, tag |-> tag, val |-> val,
     took |-> took, called |-> called, read |-> FALSE, obtained |-> 0, released |-> 0,
     calls |-> 0, pending |-> {}, arg |-> <<>>, res |-> <<>>,
     optInit |-> 0, optFini |-> 0]
\* `optInit` and `optFini` count the rcl_init_options_init and
\* rcl_init_options_fini calls of a context initialization.
\* `arg` and `res` hold the input and the output of a conversion.
\* An operation that went through the Message capability: `read` tells whether
\* read_handle filled the caller's message, `obtained` and `released` count its
\* get_native_message and destroy_native_message calls.
MsgOp(name, obj, native, tag, val, took, called, read, obtained, released) ==
    [op |-> name, obj |-> obj, native |-> native, tag |-> tag, val |-> val,
     took |-> took, called |-> called, read |-> read, obtained |-> obtained,
     released |-> released, calls |-> 0, pending |-> {}, arg |-> <<>>, res |-> <<>>,
     optInit |-> 0, optFini |-> 0]
\* A drop or a clone returns nothing.
\* Mutant: a failed native call is issued a second time.
RetryOnFailure(status) == IF status = "Ok" THEN 1 ELSE 2

\* Native calls one constructor or publish issues when its call returns
\* `status`: rcl_node_init, rcl_publisher_init, rcl_subscription_init and
\* rcl_publish each appear once, outside any loop, followed by `.ok()?` or
\* `ret.ok()`.
NativeCalls(status) == 1

\* The result of an operation that issued its native call.
Once(r, status) == [r EXCEPT !.calls = NativeCalls(status)]

NoResult == Op("none", 0, "Ok", "Ok", "unit", NoSubs, NoSubs)

\* ToResult::ok / to_rcl_result: status 0 is Ok(()), any other is Err(code).
to_rcl_result(status) ==
    IF status = "Ok" THEN [tag |-> "Ok", val |-> "unit"]
    ELSE [tag |-> "Err", val |-> status]

\* ------------------------------------------------------ node namespaces
\* Strings are sequences of characters; "/" is the separator, "a" stands
\* for every character a name token may contain and Nul is the zero byte.
Nul == "0"
NsChars == {"/", "a", Nul}
Strings(maxLen) == UNION {[1..k -> NsChars] : k \in 0..maxLen}
Namespaces == Strings(MaxNsLen)
NodeNames == {<<>>, <<"a">>, <<"/">>, <<Nul>>}
SomeName == <<"a">>

\* Mutant: Node::new passes a namespace of its own.
NonEmptyDefaultNamespace == <<"a">>

\* Node::new, line 62: Self::new_with_namespace(node_name, "", context).
DefaultNamespace == <<>>

\* rcl_node_init, as the documentation of new_with_namespace quotes it: the
\* namespace "" becomes "/", and a namespace lacking the leading forward
\* slash is given one ("foo/bar" is changed to "/foo/bar").
rcl_node_init_namespace(ns) ==
    IF ns = <<>> THEN <<"/">>
    ELSE IF Head(ns) # "/" THEN <<"/">> \o ns
    ELSE ns

\* rmw_validate_namespace on the namespace after that change: it is "/" or
\* has no empty token (no "//", no trailing "/"), and has no other character
\* than the separator and those of a token.
rmw_validate_namespace(ns) ==
    /\ ns # <<>> /\ Head(ns) = "/"
    /\ ns = <<"/">> \/ ns[Len(ns)] # "/"
    /\ \A i \in 1..(Len(ns) - 1) : ~(ns[i] = "/" /\ ns[i + 1] = "/")
    /\ \A i \in 1..Len(ns) : ns[i] \in {"/", "a"}

\* rmw_validate_node_name: not empty, characters of a token only.
rmw_validate_node_name(name) == name # <<>> /\ \A i \in 1..Len(name) : name[i] = "a"

\* CString::new(s).unwrap(), lines 117-118: a string with a zero byte in it
\* is an error, which the unwrap turns into a panic.
CStringNew(s) == IF \E i \in 1..Len(s) : s[i] = Nul THEN "Panic" ELSE "Ok"

\* The status rcl_node_init returns for a name and a namespace. `native` is
\* what it reports for a cause other than the two validations (Ok,
\* InvalidArgument, AlreadyInit, BadAlloc or Error, lines 93-111).
rcl_node_init_status(name, ns, native) ==
    IF native # "Ok" THEN native
    ELSE IF ~rmw_validate_node_name(name) THEN "NodeInvalidName"
    ELSE IF ~rmw_validate_namespace(rcl_node_init_namespace(ns)) THEN "NodeInvalidNamespace"
    ELSE "Ok"

\* The namespace given to new_with_namespace and the one the node has.
NodeNamespace(ns) == [arg |-> ns, eff |-> rcl_node_init_namespace(ns)]
NoNamespace == [arg |-> <<>>, eff |-> <<>>]

\* ---------------------------------------------------------------- Init
NoObjects ==
    /\ ctxObj = [c \in Ctxs |-> FALSE]
    /\ ctxStrong = [c \in Ctxs |-> 0]
    /\ ctxState = [c \in Ctxs |-> "none"]
    /\ nodeObj = [n \in Nodes |-> FALSE]
    /\ nodeStrong = [n \in Nodes |-> 0]
    /\ nodeState = [n \in Nodes |-> "none"]
    /\ nodeCtx = [n \in Nodes |-> 0]
    /\ nodeNs = [n \in Nodes |-> NoNamespace]
    /\ nodeSubs = [n \in Nodes |-> <<>>]
    /\ pubObj = [p \in Pubs |-> FALSE]
    /\ pubState = [p \in Pubs |-> "none"]
    /\ pubNode = [p \in Pubs |-> 0]
    /\ subApp = [s \in Subs |-> 0]
    /\ subStrong = [s \in Subs |-> 0]
    /\ subState = [s \in Subs |-> "none"]
    /\ subNode = [s \in Subs |-> 0]

NoThreads ==
    /\ pc = [t \in Threads |-> "idle"]
    /\ tgt = [t \in Threads |-> 0]
    /\ ctxLock = [c \in Ctxs |-> 0]
    /\ nodeLock = [n \in Nodes |-> 0]
    /\ pubLock = [p \in Pubs |-> 0]
    /\ subLock = [s \in Subs |-> 0]
    /\ cbLock = [s \in Subs |-> 0]

NoFini ==
    /\ nodeFiniAt = [n \in Nodes |-> "none"]
    /\ pubFiniAt = [p \in Pubs |-> "none"]
    /\ subFiniAt = [s \in Subs |-> "none"]

Init == NoObjects /\ NoFini /\ NoThreads /\ lastOp = NoResult /\ msgOutstanding = 0

\* ------------------------------------------------- shared ownership (Arc)
\* The lowest unused slot of a kind.
HasFresh(state, ids) == \E i \in ids : state[i] = "none"
Fresh(state, ids) ==
    CHOOSE i \in ids : state[i] = "none" /\ \A j \in ids : state[j] = "none" => i <= j

\* impl Drop for ContextHandle: rcl_shutdown on the wrapped context.
ContextHandleDrop(c, cst) ==
    [cst EXCEPT ![c] = IF @ = "active" THEN "shutdown"
                       ELSE IF @ \in {"none", "zero"} THEN "zero_shutdown"
                       ELSE "shutdown_again"]

\* Mutant: the wrapped handle is dropped with every owner, not the last.
EveryArc(strong) == TRUE

\* Arc<T>::drop: the inner value is dropped when the strong count falls from
\* one to zero.
LastArc(strong) == strong = 1

\* Dropping one Arc<ContextHandle>: the handle is dropped with the last one.
ContextRelease(c, cs, cst) ==
    IF LastArc(cs[c])
    THEN [strong |-> [cs EXCEPT ![c] = 0], state |-> ContextHandleDrop(c, cst)]
    ELSE [strong |-> [cs EXCEPT ![c] = @ - 1], state |-> cst]

\* impl Drop for NodeHandle: rcl_node_fini on the wrapped node. `cst` is the
\* state of the contexts at that moment.
NodeHandleDrop(n, nst, nfa, cst) ==
    [state |-> [nst EXCEPT ![n] = "finalized"],
     finiAt |-> [nfa EXCEPT ![n] = IF nst[n] = "finalized" THEN "again" ELSE cst[nodeCtx[n]]]]

\* Dropping one Arc<NodeHandle>.
NodeRelease(n, ns, nst, nfa, cst) ==
    IF LastArc(ns[n])
    THEN LET d == NodeHandleDrop(n, nst, nfa, cst)
         IN [strong |-> [ns EXCEPT ![n] = 0], state |-> d.state, finiAt |-> d.finiAt]
    ELSE [strong |-> [ns EXCEPT ![n] = @ - 1], state |-> nst, finiAt |-> nfa]

\* ------------------------------------------------------------- Context
\* Mutant: the result of init is discarded and the Context returned.
ContextInitIgnored(status, fini) == [tag |-> "Ok", val |-> "unit", built |-> TRUE]

\* Context::default, line 102: context.init(args).unwrap(). init has two
\* fallible steps: `rcl_init(..).ok()?` (lines 76-82) returns Err(status) for
\* every status other than success, and `rcl_init_options_fini(..).ok()?`
\* (line 83), reached only after a successful rcl_init, returns Err(fini)
\* likewise. The unwrap turns either error into a panic carrying it.
ContextInitOutcome(status, fini) ==
    LET r == to_rcl_result(status)
        f == to_rcl_result(fini)
    IN
    IF r.tag = "Err" THEN [tag |-> "Panic", val |-> r.val, built |-> FALSE]
    ELSE IF f.tag = "Err" THEN [tag |-> "Panic", val |-> f.val, built |-> FALSE]
    ELSE [tag |-> "Ok", val |-> "unit", built |-> TRUE]

\* Context::init, lines 75-83: rcl_init_options_init once, rcl_init(..).ok()?
\* returns the error before line 83, so rcl_init_options_fini runs only when
\* rcl_init succeeded.
InitOptionsFinis(status) == IF to_rcl_result(status).tag = "Ok" THEN 1 ELSE 0

\* The context after rcl_init returned `status`: active on success, still
\* zero-initialized otherwise.
rcl_init(c, cst, status) ==
    IF status = "Ok" THEN [cst EXCEPT ![c] = "active"] ELSE cst

\* Context::default: Arc::new(zero-initialized), init(args).unwrap().
\* When init fails the unwrap panics and the unwinding drops the
\* ContextHandle, whose Drop calls rcl_shutdown on the context as rcl_init
\* left it: zero-initialized when rcl_init failed, active when only
\* rcl_init_options_fini failed.
ContextDefault(status, fini) ==
    /\ HasFresh(ctxState, Ctxs)
    /\ LET c == Fresh(ctxState, Ctxs)
           o == ContextInitOutcome(status, fini)
           made == rcl_init(c, ctxState, status)
       IN
       /\ IF o.built
          THEN /\ ctxObj' = [ctxObj EXCEPT ![c] = TRUE]
               /\ ctxStrong' = [ctxStrong EXCEPT ![c] = 1]
               /\ ctxState' = made
          ELSE /\ ctxObj' = ctxObj
               /\ ctxStrong' = ctxStrong
               /\ ctxState' = ContextHandleDrop(c, made)
       /\ lastOp' = [Op("Context::default", c, status, o.tag, o.val, NoSubs, NoSubs)
                       EXCEPT !.optInit = 1, !.optFini = InitOptionsFinis(status)]
    /\ UNCHANGED <<nodeVars, pubVars, subVars, finiVars, msgOutstanding, threadVars>>

\* rcl_context_is_valid on a context in the given state.
rcl_context_is_valid(state) == IF state = "active" THEN "true" ELSE "false"

\* Context::ok: rcl_context_is_valid under the context's mutex.
ContextOk(c) ==
    /\ ctxObj[c]
    /\ lastOp' = Op("Context::ok", c, "Ok", "Ok", rcl_context_is_valid(ctxState[c]),
                    NoSubs, NoSubs)
    /\ UNCHANGED <<ctxVars, nodeVars, pubVars, subVars, finiVars, msgOutstanding, threadVars>>

\* Dropping the Context object releases its Arc<ContextHandle>.
DropContext(c) ==
    /\ ctxObj[c]
    /\ LET r == ContextRelease(c, ctxStrong, ctxState) IN
       /\ ctxObj' = [ctxObj EXCEPT ![c] = FALSE]
       /\ ctxStrong' = r.strong
       /\ ctxState' = r.state
    /\ lastOp' = NoResult
    /\ UNCHANGED <<nodeVars, pubVars, subVars, finiVars, msgOutstanding, threadVars>>

\* ---------------------------------------------------------------- Node
\* Mutant: the Node keeps a borrowed context and takes no strong reference.
NodeContextRefBorrowed(cs, c) == cs

\* Node { context: context.handle.clone(), .. }: the Node shares the context.
NodeContextRef(cs, c) == [cs EXCEPT ![c] = @ + 1]

\* Node::new_with_namespace: rcl_node_init under the context's mutex; an
\* error status returns early (`?`) and no Node exists. `via` names the
\* constructor the application called.
NodeNewWithNamespace(via, name, ns, c, status) ==
    /\ ctxObj[c]
    /\ IF status = "Ok"
       THEN /\ HasFresh(nodeState, Nodes)
            /\ LET n == Fresh(nodeState, Nodes) IN
               /\ nodeObj' = [nodeObj EXCEPT ![n] = TRUE]
               /\ nodeStrong' = [nodeStrong EXCEPT ![n] = 1]
               /\ nodeState' = [nodeState EXCEPT ![n] = "active"]
               /\ nodeCtx' = [nodeCtx EXCEPT ![n] = c]
               /\ nodeNs' = [nodeNs EXCEPT ![n] = NodeNamespace(ns)]
               /\ nodeSubs' = [nodeSubs EXCEPT ![n] = <<>>]
               /\ ctxStrong' = NodeContextRef(ctxStrong, c)
               /\ lastOp' = [Once(Op(via, n, status, "Ok", "unit", NoSubs, NoSubs), status)
                               EXCEPT !.arg = <<name, ns>>]
       ELSE /\ UNCHANGED <<nodeVars, ctxStrong>>
            /\ lastOp' = [Once(Op(via, 0, status, "Err", status, NoSubs, NoSubs), status)
                            EXCEPT !.arg = <<name, ns>>]
    /\ UNCHANGED <<ctxObj, ctxState, pubVars, subVars, finiVars, msgOutstanding, threadVars>>

\* Node::new (and Context::create_node): new_with_namespace with "".
NodeNew(c, status) == NodeNewWithNamespace("Node::new", SomeName, DefaultNamespace, c, status)

\* Node::new_with_namespace called with a name and a namespace. The two
\* CString::new(..).unwrap() come first: with a zero byte in either string
\* the call panics before anything is locked or created. Otherwise
\* rcl_node_init validates the strings and reports its status.
NodeNewNamed(c, name, ns, native) ==
    IF CStringNew(name) = "Panic" \/ CStringNew(ns) = "Panic"
    THEN /\ ctxObj[c]
         /\ lastOp' = [Op("Node::new_with_namespace", 0, "NotCalled", "Panic", "NulError",
                          NoSubs, NoSubs) EXCEPT !.arg = <<name, ns>>]
         /\ UNCHANGED <<ctxVars, nodeVars, pubVars, subVars, finiVars, msgOutstanding, threadVars>>
    ELSE NodeNewWithNamespace("Node::new_with_namespace", name, ns, c,
                              rcl_node_init_status(name, ns, native))

\* Statuses with which rcl_node_fini reports a failure.
NodeFiniFailures == {"NodeInvalid", "Error"}

\* NodeHandle::drop, line 42: rcl_node_fini(..).unwrap() panics the dropping
\* thread on every status other than success. The remaining fields of the
\* object being dropped are released by the unwinding.
NodeFiniResult(n, fini) ==
    IF fini = "Ok"
    THEN Op("NodeHandle::drop", n, fini, "Ok", "unit", NoSubs, NoSubs)
    ELSE Op("NodeHandle::drop", n, fini, "Panic", fini, NoSubs, NoSubs)

\* What releasing one Arc<NodeHandle> of node `n` leaves behind when
\* rcl_node_fini would report `fini`: the drop body runs with the last Arc only.
NodeReleaseResult(n, fini) == IF LastArc(nodeStrong[n]) THEN NodeFiniResult(n, fini) ELSE NoResult

\* The fini status is an input only when rcl_node_fini runs.
FiniRuns(n, fini) == LastArc(nodeStrong[n]) \/ fini = "Ok"

\* Dropping the Node object drops its fields in declaration order: handle
\* (Arc<NodeHandle>), context (Arc<ContextHandle>), subscriptions (Weak only).
DropNode(n, fini) ==
    /\ nodeObj[n]
    /\ FiniRuns(n, fini)
    /\ LET r1 == NodeRelease(n, nodeStrong, nodeState, nodeFiniAt, ctxState)
           r2 == ContextRelease(nodeCtx[n], ctxStrong, ctxState)
       IN /\ nodeObj' = [nodeObj EXCEPT ![n] = FALSE]
          /\ nodeStrong' = r1.strong
          /\ nodeState' = r1.state
          /\ nodeFiniAt' = r1.finiAt
          /\ nodeSubs' = [nodeSubs EXCEPT ![n] = <<>>]
          /\ ctxStrong' = r2.strong
          /\ ctxState' = r2.state
    /\ lastOp' = NodeReleaseResult(n, fini)
    /\ UNCHANGED <<ctxObj, nodeCtx, nodeNs, pubVars, subVars, pubFiniAt, subFiniAt, msgOutstanding, threadVars>>

\* ----------------------------------------------------------- Publisher
\* Mutant: the PublisherHandle takes no strong reference to the node handle.
PublisherNodeRefBorrowed(ns, n) == ns

\* PublisherHandle { node_handle: node.handle.clone(), .. }
PublisherNodeRef(ns, n) == [ns EXCEPT ![n] = @ + 1]

\* Publisher::new: rcl_publisher_init under the node's mutex.
PublisherNew(n, status) ==
    /\ nodeObj[n]
    /\ IF status = "Ok"
       THEN /\ HasFresh(pubState, Pubs)
            /\ LET p == Fresh(pubState, Pubs) IN
               /\ pubObj' = [pubObj EXCEPT ![p] = TRUE]
               /\ pubState' = [pubState EXCEPT ![p] = "active"]
               /\ pubNode' = [pubNode EXCEPT ![p] = n]
               /\ nodeStrong' = PublisherNodeRef(nodeStrong, n)
               /\ lastOp' = Once(Op("Publisher::new", p, status, "Ok", "unit", NoSubs, NoSubs), status)
       ELSE /\ UNCHANGED <<pubVars, nodeStrong>>
            /\ lastOp' = Once(Op("Publisher::new", 0, status, "Err", status, NoSubs, NoSubs), status)
    /\ UNCHANGED <<ctxVars, nodeObj, nodeState, nodeCtx, nodeNs, nodeSubs, subVars, finiVars,
                   msgOutstanding, threadVars>>

\* Mutant: the native message is released only after a successful publish.
PublishReleasesOnSuccess(status) == IF status = "Ok" THEN 1 ELSE 0

\* destroy_native_message calls of one publish whose rcl_publish returned
\* `status`: line 158 runs before ret.ok(), whatever the status.
PublishReleases(status) == 1

\* Publisher::publish: get_native_message, rcl_publish under the publisher's
\* mutex, destroy_native_message, ret.ok().
Publish(p, status) ==
    /\ pubObj[p]
    /\ LET r == to_rcl_result(status)
           rel == PublishReleases(status)
       IN /\ msgOutstanding' = msgOutstanding + 1 - rel
          /\ lastOp' = Once(MsgOp("publish", p, status, r.tag, r.val, NoSubs, NoSubs,
                              FALSE, 1, rel), status)
    /\ UNCHANGED <<ctxVars, nodeVars, pubVars, subVars, finiVars, threadVars>>

\* Mutant: dropping the PublisherHandle never calls rcl_publisher_fini.
PublisherHandleDropNoFini(p) ==
    LET n == pubNode[p]
        r == NodeRelease(n, nodeStrong, nodeState, nodeFiniAt, ctxState)
    IN [pstate |-> pubState, pfiniAt |-> pubFiniAt,
        strong |-> r.strong, state |-> r.state, finiAt |-> r.finiAt]

\* impl Drop for PublisherHandle: rcl_publisher_fini under the node's mutex;
\* the node_handle field is released after the drop body.
PublisherHandleDrop(p) ==
    LET n == pubNode[p]
        r == NodeRelease(n, nodeStrong, nodeState, nodeFiniAt, ctxState)
    IN [pstate |-> [pubState EXCEPT ![p] = "finalized"],
        pfiniAt |-> [pubFiniAt EXCEPT ![p] = IF pubState[p] = "finalized" THEN "again"
                                             ELSE nodeState[n]],
        strong |-> r.strong, state |-> r.state, finiAt |-> r.finiAt]

\* Dropping the Publisher drops its only Arc<PublisherHandle>.
DropPublisher(p, fini) ==
    /\ pubObj[p]
    /\ FiniRuns(pubNode[p], fini)
    /\ LET d == PublisherHandleDrop(p) IN
       /\ pubObj' = [pubObj EXCEPT ![p] = FALSE]
       /\ pubState' = d.pstate
       /\ pubFiniAt' = d.pfiniAt
       /\ nodeStrong' = d.strong
       /\ nodeState' = d.state
       /\ nodeFiniAt' = d.finiAt
    /\ lastOp' = NodeReleaseResult(pubNode[p], fini)
    /\ UNCHANGED <<ctxVars, nodeObj, nodeCtx, nodeNs, nodeSubs, pubNode, subVars, subFiniAt,
                   msgOutstanding, threadVars>>

\* -------------------------------------------------------- Subscription
\* SubscriptionHandle { node_handle: node.handle.clone(), .. }
SubscriptionNodeRef(ns, n) == [ns EXCEPT ![n] = @ + 1]

\* Mutant: the registry stores a clone of the Arc instead of a Weak.
ArcCloneInstead(strong) == strong + 1

\* Arc::downgrade(&subscription): the registry entry adds no strong count.
ArcDowngrade(strong) == strong

\* Mutant: the new entry is inserted at the front of the vector.
RegistryPushFront(registry, s) == <<s>> \o registry

\* self.subscriptions.push(..): the entry goes to the end of the vector.
RegistryPush(registry, s) == Append(registry, s)

\* Node::create_subscription: Arc::new(Subscription::new(..)?), push the
\* downgraded Weak onto self.subscriptions, return the Arc.
\* Subscription::new: rcl_subscription_init under the node's mutex.
CreateSubscription(n, status) ==
    /\ nodeObj[n]
    /\ IF status = "Ok"
       THEN /\ HasFresh(subState, Subs)
            /\ LET s == Fresh(subState, Subs) IN
               /\ subApp' = [subApp EXCEPT ![s] = 1]
               /\ subStrong' = [subStrong EXCEPT ![s] = ArcDowngrade(1)]
               /\ subState' = [subState EXCEPT ![s] = "active"]
               /\ subNode' = [subNode EXCEPT ![s] = n]
               /\ nodeStrong' = SubscriptionNodeRef(nodeStrong, n)
               /\ nodeSubs' = [nodeSubs EXCEPT ![n] = RegistryPush(@, s)]
               /\ lastOp' = Once(Op("create_subscription", s, status, "Ok", "unit", NoSubs, NoSubs), status)
       ELSE /\ UNCHANGED <<subVars, nodeStrong, nodeSubs>>
            /\ lastOp' = Once(Op("create_subscription", 0, status, "Err", status, NoSubs, NoSubs), status)
    /\ UNCHANGED <<ctxVars, nodeObj, nodeState, nodeCtx, nodeNs, pubVars, finiVars, msgOutstanding, threadVars>>

\* Subscription::new called directly: the Subscription is returned by value
\* to the caller; no Arc is made and nothing is pushed onto the node's
\* subscriptions.
SubscriptionNew(n, status) ==
    /\ nodeObj[n]
    /\ IF status = "Ok"
       THEN /\ HasFresh(subState, Subs)
            /\ LET s == Fresh(subState, Subs) IN
               /\ subApp' = [subApp EXCEPT ![s] = 1]
               /\ subStrong' = [subStrong EXCEPT ![s] = 1]
               /\ subState' = [subState EXCEPT ![s] = "active"]
               /\ subNode' = [subNode EXCEPT ![s] = n]
               /\ nodeStrong' = SubscriptionNodeRef(nodeStrong, n)
               /\ lastOp' = Once(Op("Subscription::new", s, status, "Ok", "unit", NoSubs, NoSubs), status)
       ELSE /\ UNCHANGED <<subVars, nodeStrong>>
            /\ lastOp' = Once(Op("Subscription::new", 0, status, "Err", status, NoSubs, NoSubs), status)
    /\ UNCHANGED <<ctxVars, nodeObj, nodeState, nodeCtx, nodeNs, nodeSubs, pubVars, finiVars,
                   msgOutstanding, threadVars>>

\* Arc::clone of a subscription handle the application holds.
CloneSubscription(s) ==
    /\ subApp[s] > 0
    /\ subApp[s] < MaxHandles
    /\ subApp' = [subApp EXCEPT ![s] = @ + 1]
    /\ subStrong' = [subStrong EXCEPT ![s] = @ + 1]
    /\ lastOp' = NoResult
    /\ UNCHANGED <<ctxVars, nodeVars, pubVars, subState, subNode, finiVars, msgOutstanding, threadVars>>

\* Mutant: dropping the SubscriptionHandle never calls rcl_subscription_fini.
SubscriptionHandleDropNoFini(s) ==
    LET n == subNode[s]
        r == NodeRelease(n, nodeStrong, nodeState, nodeFiniAt, ctxState)
    IN [sstate |-> subState, sfiniAt |-> subFiniAt,
        strong |-> r.strong, state |-> r.state, finiAt |-> r.finiAt]

\* Mutant: the fini of one subscription finalizes every subscription of the
\* node.
SubscriptionHandleDropSiblings(s) ==
    LET n == subNode[s]
        r == NodeRelease(n, nodeStrong, nodeState, nodeFiniAt, ctxState)
    IN [sstate |-> [x \in Subs |-> IF subNode[x] = n THEN "finalized" ELSE subState[x]],
        sfiniAt |-> [subFiniAt EXCEPT ![s] = nodeState[n]],
        strong |-> r.strong, state |-> r.state, finiAt |-> r.finiAt]

\* impl Drop for SubscriptionHandle: rcl_subscription_fini under the node's
\* mutex; the node_handle field is released after the drop body.
SubscriptionHandleDrop(s) ==
    LET n == subNode[s]
        r == NodeRelease(n, nodeStrong, nodeState, nodeFiniAt, ctxState)
    IN [sstate |-> [subState EXCEPT ![s] = "finalized"],
        sfiniAt |-> [subFiniAt EXCEPT ![s] = IF subState[s] = "finalized" THEN "again"
                                             ELSE nodeState[n]],
        strong |-> r.strong, state |-> r.state, finiAt |-> r.finiAt]

\* Mutant: the drop of the handle removes the subscription's registry entry.
RegistryEagerPrune(registry, s) == SelectSeq(registry, LAMBDA e : e # s)

\* impl Drop for SubscriptionHandle has no access to Node::subscriptions: the
\* registry is as it was.
RegistryAfterDrop(registry, s) == registry

\* Dropping one Arc<Subscription>: the Subscription (and with it its only
\* Arc<SubscriptionHandle>) is dropped with the last strong handle.
DropSubscription(s, fini) ==
    /\ subApp[s] > 0
    /\ subApp' = [subApp EXCEPT ![s] = @ - 1]
    /\ IF LastArc(subStrong[s])
       THEN LET d == SubscriptionHandleDrop(s) IN
            /\ FiniRuns(subNode[s], fini)
            /\ subStrong' = [subStrong EXCEPT ![s] = 0]
            /\ subState' = d.sstate
            /\ subFiniAt' = d.sfiniAt
            /\ nodeStrong' = d.strong
            /\ nodeState' = d.state
            /\ nodeFiniAt' = d.finiAt
            /\ nodeSubs' = [nodeSubs EXCEPT ![subNode[s]] = RegistryAfterDrop(@, s)]
            /\ lastOp' = NodeReleaseResult(subNode[s], fini)
       ELSE /\ fini = "Ok"
            /\ subStrong' = [subStrong EXCEPT ![s] = @ - 1]
            /\ lastOp' = NoResult
            /\ UNCHANGED <<subState, subFiniAt, nodeStrong, nodeState, nodeFiniAt, nodeSubs>>
    /\ UNCHANGED <<ctxVars, nodeObj, nodeCtx, nodeNs, pubVars, subNode, pubFiniAt,
                   msgOutstanding, threadVars>>

\* Mutant: every status other than success is reported as "no message".
TakeOutcomeSwallowsFaults(status) ==
    LET r == to_rcl_result(status) IN
    IF r.tag = "Ok" THEN [tag |-> "Ok", val |-> "true", read |-> TRUE]
    ELSE [tag |-> "Ok", val |-> "false", read |-> FALSE]

\* SubscriptionBase::take, the match on to_rcl_result(rcl_take(..)):
\* Ok => read_handle, Ok(true); Err(SubscriptionTakeFailed) => Ok(false);
\* Err(error) => Err(error).
TakeOutcome(status) ==
    LET r == to_rcl_result(status) IN
    IF r.tag = "Ok" THEN [tag |-> "Ok", val |-> "true", read |-> TRUE]
    ELSE IF r.val = "SubscriptionTakeFailed" THEN [tag |-> "Ok", val |-> "false", read |-> FALSE]
    ELSE [tag |-> "Err", val |-> r.val, read |-> FALSE]

\* Subscription::take: read_handle whatever rcl_take returned, then
\* ret.ok().map_err(..).
TypedTakeOutcome(status) ==
    LET r == to_rcl_result(status) IN [tag |-> r.tag, val |-> r.val, read |-> TRUE]

\* Mutant: the native message is released only when a message was taken.
TakeReleasesOnSuccess(status) == IF status = "Ok" THEN 1 ELSE 0

\* destroy_native_message calls of one SubscriptionBase::take whose rcl_take
\* returned `status`: line 115 follows the match, which has no early return.
TakeReleases(status) == 1

\* The message the caller passes to take, before the call.
CallerMessage == "caller"

\* Message::get_native_message: a native representation of the message.
get_native_message(message) == [of |-> message, content |-> message]

\* rcl_take on the native representation: on success it holds the received
\* message; on any other status its content is whatever rcl left there.
rcl_take(message_handle, status) ==
    [message_handle EXCEPT !.content = IF status = "Ok" THEN "received" ELSE "indeterminate"]

\* Message::read_handle: the message takes the native representation's content.
read_handle(message, message_handle) == message_handle.content

\* SubscriptionBase::take: rcl_take under the subscription's mutex between
\* get_native_message and destroy_native_message, and the match above.
Take(s, status) ==
    /\ subApp[s] > 0
    /\ LET r == TakeOutcome(status)
           rel == TakeReleases(status)
           message == CallerMessage
           message_handle == rcl_take(get_native_message(message), status)
           after == IF r.read THEN read_handle(message, message_handle) ELSE message
       IN /\ msgOutstanding' = msgOutstanding + 1 - rel
          /\ lastOp' = [MsgOp("take", s, status, r.tag, r.val, {s}, NoSubs, r.read, 1, rel)
                           EXCEPT !.arg = message, !.res = after]
    /\ UNCHANGED <<ctxVars, nodeVars, pubVars, subVars, finiVars, threadVars>>

\* Subscription::take.
TypedTake(s, status) ==
    /\ subApp[s] > 0
    /\ LET r == TypedTakeOutcome(status) IN
       lastOp' = MsgOp("Subscription::take", s, status, r.tag, r.val, {s}, NoSubs, r.read, 1, 1)
    /\ UNCHANGED <<ctxVars, nodeVars, pubVars, subVars, finiVars, msgOutstanding, threadVars>>

\* Message types a Subscription<T> is instantiated with.
MessageTypes == {"T1", "T2"}

\* Mutant: create_message boxes a message of another type.
create_message_other(T) ==
    [type |-> CHOOSE U \in MessageTypes : U # T, value |-> "default"]

\* create_message of Subscription<T>: Box::new(T::default()).
create_message(T) == [type |-> T, value |-> "default"]

\* Box<dyn Message>::downcast_ref::<T>(): Some only for a boxed T.
downcast_ref(message, T) ==
    IF message.type = T THEN [tag |-> "Some", val |-> message] ELSE [tag |-> "None"]

\* callback_ext of Subscription<T>: message.downcast_ref().unwrap(), then
\* the stored callback is run once on it under the callback mutex; Ok(()).
callback_ext(T, message) ==
    LET msg == downcast_ref(message, T) IN
    IF msg.tag = "Some" THEN [tag |-> "Ok", invoked |-> <<msg.val>>]
    ELSE [tag |-> "Panic", invoked |-> <<>>]

\* callback_fn(create_message()) on a Subscription<T>: callback_fn calls
\* callback_ext and discards what it returns.
CallbackFn(s, T) ==
    /\ subApp[s] > 0
    /\ LET message == create_message(T)
           r == callback_ext(T, message)
       IN lastOp' = [Op("callback_fn", s, "Ok", r.tag, "unit", NoSubs,
                        IF r.invoked # <<>> THEN {s} ELSE NoSubs)
                       EXCEPT !.arg = [T |-> T, message |-> message], !.res = r.invoked]
    /\ UNCHANGED <<ctxVars, nodeVars, pubVars, subVars, finiVars, msgOutstanding, threadVars>>

\* ------------------------------------------------------- dispatch pass
\* Weak::upgrade of a registry entry: Some exactly while a strong handle exists.
WeakUpgrade(s) == subStrong[s] > 0

LiveEntries(n) == SelectSeq(nodeSubs[n], LAMBDA s : WeakUpgrade(s))
LiveSet(n) == {LiveEntries(n)[i] : i \in 1..Len(LiveEntries(n))}

\* One pass over the live entries in registry order: take on each, the
\* callback after Ok(true), move on after Ok(false), stop at the first Err.
RECURSIVE DispatchFrom(_, _, _)
DispatchFrom(entries, sts, acc) ==
    IF entries = <<>> \/ acc.tag = "Err" THEN acc
    ELSE LET s == Head(entries)
             r == TakeOutcome(sts[s])
         IN DispatchFrom(Tail(entries), sts,
                [tag |-> r.tag,
                 val |-> IF r.tag = "Err" THEN r.val ELSE "unit",
                 took |-> acc.took \cup {s},
                 called |-> IF r.tag = "Ok" /\ r.val = "true"
                            THEN acc.called \cup {s} ELSE acc.called])

\* The executor's pass over Node::subscriptions: dead entries are pruned,
\* live ones are polled.
DispatchPass(n, sts) ==
    /\ nodeObj[n]
    /\ LET live == LiveEntries(n)
           r == DispatchFrom(live, sts,
                    [tag |-> "Ok", val |-> "unit", took |-> NoSubs, called |-> NoSubs])
       IN /\ nodeSubs' = [nodeSubs EXCEPT ![n] = live]
          /\ lastOp' = [Op("dispatch", n, "Ok", r.tag, r.val, r.took, r.called)
                            EXCEPT !.pending = {s \in LiveSet(n) : sts[s] = "Ok"}]
    /\ UNCHANGED <<ctxVars, nodeObj, nodeStrong, nodeState, nodeCtx, nodeNs, pubVars, subVars,
                   finiVars, msgOutstanding, threadVars>>

\* --------------------------------------------------------------- Spec
Next ==
    \/ \E st, fini \in {"Ok"} \cup InitFailures : ContextDefault(st, fini)
    \/ \E c \in Ctxs : ContextOk(c)
    \/ \E c \in Ctxs : DropContext(c)
    \/ \E c \in Ctxs, st \in {"Ok"} \cup NodeInitFailures : NodeNew(c, st)
    \/ \E n \in Nodes, fini \in {"Ok"} \cup NodeFiniFailures : DropNode(n, fini)
    \/ \E n \in Nodes, st \in {"Ok"} \cup EndpointInitFailures : PublisherNew(n, st)
    \/ \E p \in Pubs, st \in {"Ok"} \cup PublishFailures : Publish(p, st)
    \/ \E p \in Pubs, fini \in {"Ok"} \cup NodeFiniFailures : DropPublisher(p, fini)
    \/ \E n \in Nodes, st \in {"Ok"} \cup EndpointInitFailures : CreateSubscription(n, st)
    \/ \E n \in Nodes, st \in {"Ok"} \cup EndpointInitFailures : SubscriptionNew(n, st)
    \/ \E s \in Subs : CloneSubscription(s)
    \/ \E s \in Subs, fini \in {"Ok"} \cup NodeFiniFailures : DropSubscription(s, fini)
    \/ \E s \in Subs, st \in {"Ok"} \cup TakeFailures : Take(s, st)
    \/ \E s \in Subs, st \in {"Ok"} \cup TakeFailures : TypedTake(s, st)
    \/ \E s \in Subs, T \in MessageTypes : CallbackFn(s, T)
    \/ \E n \in Nodes : \E sts \in [LiveSet(n) -> {"Ok"} \cup TakeFailures] : DispatchPass(n, sts)

Spec == Init /\ [][Next]_vars

\* -------------------------------------------------------------- SpecNs
\* The application creates contexts and nodes, choosing names and namespaces.
NextNs ==
    \/ \E st, fini \in {"Ok"} \cup InitFailures : ContextDefault(st, fini)
    \/ \E c \in Ctxs, st \in {"Ok"} \cup NodeInitFailures : NodeNew(c, st)
    \/ \E c \in Ctxs, name \in NodeNames, ns \in Namespaces, native \in {"Ok"} \cup InitFailures :
           NodeNewNamed(c, name, ns, native)

SpecNs == Init /\ [][NextNs]_vars

\* ----------------------------------------------------------------- QoS
\* qos.rs: the policy enums, the profile struct and its conversion to
\* rmw_qos_profile_t.
QoSHistoryPolicy == {"SystemDefault", "KeepLast", "KeepAll"}
QoSReliabilityPolicy == {"SystemDefault", "Reliable", "BestEffort"}
QoSDurabilityPolicy == {"SystemDefault", "TransientLocal", "Volatile"}

\* isize depths: the depths of the predefined profiles (0, 5, 10, 1000) and
\* every value within MaxDepth of zero, negative ones included.
Depths == (-MaxDepth..MaxDepth) \cup {5, 10, 1000}

QoSProfile ==
    [history : QoSHistoryPolicy, depth : Depths, reliability : QoSReliabilityPolicy,
     durability : QoSDurabilityPolicy, avoid_ros_namespace_conventions : BOOLEAN]

\* A usize is 64 bits wide, kept as UsizeLimbs limbs of LimbBits bits each,
\* least significant first.
LimbBase == 65536
UsizeLimbs == 4

\* The low n limbs of the two's complement representation of v.
RECURSIVE Limbs(_, _)
Limbs(v, n) == IF n = 0 THEN <<>> ELSE <<v % LimbBase>> \o Limbs(v \div LimbBase, n - 1)

\* `qos.depth as usize`: the isize reinterpreted modulo 2^64.
DepthAsUsize(depth) == Limbs(depth, UsizeLimbs)

\* impl From<QoSHistoryPolicy> for rmw_qos_history_policy_t.
HistoryInto(policy) ==
    CASE policy = "SystemDefault" -> "RMW_QOS_POLICY_HISTORY_SYSTEM_DEFAULT"
      [] policy = "KeepLast" -> "RMW_QOS_POLICY_HISTORY_KEEP_LAST"
      [] policy = "KeepAll" -> "RMW_QOS_POLICY_HISTORY_KEEP_ALL"

\* impl From<QoSReliabilityPolicy> for rmw_qos_reliability_policy_t.
ReliabilityInto(policy) ==
    CASE policy = "SystemDefault" -> "RMW_QOS_POLICY_RELIABILITY_SYSTEM_DEFAULT"
      [] policy = "Reliable" -> "RMW_QOS_POLICY_RELIABILITY_RELIABLE"
      [] policy = "BestEffort" -> "RMW_QOS_POLICY_RELIABILITY_BEST_EFFORT"

\* impl From<QoSDurabilityPolicy> for rmw_qos_durability_policy_t.
DurabilityInto(policy) ==
    CASE policy = "SystemDefault" -> "RMW_QOS_POLICY_DURABILITY_SYSTEM_DEFAULT"
      [] policy = "TransientLocal" -> "RMW_QOS_POLICY_DURABILITY_TRANSIENT_LOCAL"
      [] policy = "Volatile" -> "RMW_QOS_POLICY_DURABILITY_VOLATILE"

\* impl From<QoSProfile> for rmw_qos_profile_t.
QoSProfileInto(qos) ==
    [history |-> HistoryInto(qos.history),
     depth |-> DepthAsUsize(qos.depth),
     reliability |-> ReliabilityInto(qos.reliability),
     durability |-> DurabilityInto(qos.durability),
     avoid_ros_namespace_conventions |-> qos.avoid_ros_namespace_conventions,
     deadline |-> [sec |-> 0, nsec |-> 0],
     lifespan |-> [sec |-> 0, nsec |-> 0],
     liveliness_lease_duration |-> [sec |-> 0, nsec |-> 0],
     liveliness |-> "RMW_QOS_POLICY_LIVELINESS_SYSTEM_DEFAULT"]

\* A caller converts a profile, as Publisher::new and Subscription::new do
\* with `qos.into()`.
QoSInto(qos) ==
    /\ lastOp' = [Op("QoSProfile::into", 0, "Ok", "Ok", "unit", NoSubs, NoSubs)
                     EXCEPT !.arg = qos, !.res = QoSProfileInto(qos)]
    /\ UNCHANGED <<ctxVars, nodeVars, pubVars, subVars, finiVars, msgOutstanding, threadVars>>

\* -------------------------------------------------------------- strings
\* string.rs. A &str is a sequence of Unicode scalar values; the ones used
\* are U+0061 (a), U+00FC (u umlaut), U+20AC (euro sign) and U+1F600, which
\* take 1, 2, 3 and 4 bytes in UTF-8 and 1, 1, 1 and 2 units in UTF-16.
CodePoints == {97, 252, 8364, 128512}
Strs == UNION {[1..n -> CodePoints] : n \in 0..MaxStrLen}
StringBounds == 0..MaxBound
ReplacementChar == 65533

\* UTF-8 encoding of one scalar value.
Utf8(cp) ==
    IF cp < 128 THEN <<cp>>
    ELSE IF cp < 2048 THEN <<192 + (cp \div 64), 128 + (cp % 64)>>
    ELSE IF cp < 65536
    THEN <<224 + (cp \div 4096), 128 + ((cp \div 64) % 64), 128 + (cp % 64)>>
    ELSE <<240 + (cp \div 262144), 128 + ((cp \div 4096) % 64), 128 + ((cp \div 64) % 64),
           128 + (cp % 64)>>

\* UTF-16 encoding of one scalar value (a surrogate pair above U+FFFF).
Utf16(cp) ==
    IF cp < 65536 THEN <<cp>>
    ELSE <<55296 + ((cp - 65536) \div 1024), 56320 + ((cp - 65536) % 1024)>>

\* str::as_bytes: the UTF-8 bytes of s; s.len() is their number.
RECURSIVE as_bytes(_)
as_bytes(s) == IF s = <<>> THEN <<>> ELSE Utf8(Head(s)) \o as_bytes(Tail(s))

\* str::encode_utf16.
RECURSIVE encode_utf16(_)
encode_utf16(s) == IF s = <<>> THEN <<>> ELSE Utf16(Head(s)) \o encode_utf16(Tail(s))

IsCont(bytes, i) == i <= Len(bytes) /\ bytes[i] >= 128 /\ bytes[i] < 192

\* String::from_utf8_lossy: a well-formed sequence decodes to its scalar
\* value; a maximal ill-formed prefix of a sequence is replaced by one
\* U+FFFD. Lead bytes C0, C1 and F5..FF start nothing, and the second byte
\* of a sequence is restricted after E0, ED, F0 and F4, which excludes
\* overlong encodings, surrogates and values above U+10FFFF.
RECURSIVE from_utf8_lossy(_)
from_utf8_lossy(bytes) ==
    IF bytes = <<>> THEN <<>>
    ELSE LET b == bytes[1]
             rest(k) == from_utf8_lossy(SubSeq(bytes, k + 1, Len(bytes)))
             In(i, lo, hi) == i <= Len(bytes) /\ bytes[i] >= lo /\ bytes[i] <= hi
             width == IF b < 128 THEN 1
                      ELSE IF b >= 194 /\ b <= 223 THEN 2
                      ELSE IF b >= 224 /\ b <= 239 THEN 3
                      ELSE IF b >= 240 /\ b <= 244 THEN 4
                      ELSE 0
             second == IF b = 224 THEN In(2, 160, 191)
                       ELSE IF b = 237 THEN In(2, 128, 159)
                       ELSE IF b = 240 THEN In(2, 144, 191)
                       ELSE IF b = 244 THEN In(2, 128, 143)
                       ELSE In(2, 128, 191)
         IN IF width = 1 THEN <<b>> \o rest(1)
            ELSE IF width = 0 \/ ~second THEN <<ReplacementChar>> \o rest(1)
            ELSE IF width = 2
            THEN <<((b - 192) * 64) + (bytes[2] - 128)>> \o rest(2)
            ELSE IF ~IsCont(bytes, 3) THEN <<ReplacementChar>> \o rest(2)
            ELSE IF width = 3
            THEN <<((b - 224) * 4096) + ((bytes[2] - 128) * 64) + (bytes[3] - 128)>> \o rest(3)
            ELSE IF ~IsCont(bytes, 4) THEN <<ReplacementChar>> \o rest(3)
            ELSE <<((b - 240) * 262144) + ((bytes[2] - 128) * 4096) + ((bytes[3] - 128) * 64)
                   + (bytes[4] - 128)>> \o rest(4)

\* String::from_utf16_lossy: a surrogate pair decodes to its scalar value, a
\* lone surrogate to U+FFFD.
RECURSIVE from_utf16_lossy(_)
from_utf16_lossy(units) ==
    IF units = <<>> THEN <<>>
    ELSE LET u == units[1]
             rest(k) == from_utf16_lossy(SubSeq(units, k + 1, Len(units)))
         IN IF u < 55296 \/ u >= 57344 THEN <<u>> \o rest(1)
            ELSE IF u < 56320 /\ Len(units) >= 2 /\ units[2] >= 56320 /\ units[2] < 57344
            THEN <<65536 + ((u - 55296) * 1024) + (units[2] - 56320)>> \o rest(2)
            ELSE <<ReplacementChar>> \o rest(1)

\* rosidl_runtime_c__String__assignn / __U16String__assignn: the string
\* holds a copy of the first n characters of value.
assignn(value, n) == [data |-> SubSeq(value, 1, n), size |-> n]

\* rosidl_runtime_c__String__init: the empty string.
StringDefault == [data |-> <<>>, size |-> 0]

\* impl From<&str> for String.
StringFrom(s) == assignn(as_bytes(s), Len(as_bytes(s)))

\* impl From<&str> for WString.
WStringFrom(s) == LET buf == encode_utf16(s) IN assignn(buf, Len(buf))

\* impl Clone for String / WString.
StringClone(str) == assignn(str.data, str.size)

\* Deref: the first `size` characters, without the terminator.
StringDeref(str) == SubSeq(str.data, 1, str.size)

\* Display for String, through ToString.
StringToString(str) == from_utf8_lossy(StringDeref(str))

\* Display for WString, through ToString.
WStringToString(str) == from_utf16_lossy(StringDeref(str))

StringExceedsBoundsError(len, upper_bound) == [len |-> len, upper_bound |-> upper_bound]

\* Mutant: the bound is compared with the number of scalar values of s.
BoundedStringFitsChars(s, N) == Len(s) <= N

\* BoundedString<N>::try_from: `s.len() <= N`.
BoundedStringFits(s, N) == Len(as_bytes(s)) <= N

\* BoundedWString<N>::try_from: `s.len() <= N`.
BoundedWStringFits(s, N) == Len(as_bytes(s)) <= N

\* impl TryFrom<&str> for BoundedString<N>.
BoundedStringTryFrom(N, s) ==
    /\ lastOp' = [Op("BoundedString::try_from", 0, "Ok",
                      IF BoundedStringFits(s, N) THEN "Ok" ELSE "Err", "unit", NoSubs, NoSubs)
                     EXCEPT !.arg = [bound |-> N, s |-> s],
                            !.res = IF BoundedStringFits(s, N) THEN StringFrom(s)
                                    ELSE StringExceedsBoundsError(Len(as_bytes(s)), N)]
    /\ UNCHANGED <<ctxVars, nodeVars, pubVars, subVars, finiVars, msgOutstanding, threadVars>>

\* #[derive(Default)] on BoundedString<N>: the default inner String.
BoundedStringDefault(N) ==
    /\ lastOp' = [Op("BoundedString::default", 0, "Ok", "Ok", "unit", NoSubs, NoSubs)
                     EXCEPT !.arg = [bound |-> N, s |-> <<>>], !.res = StringDefault]
    /\ UNCHANGED <<ctxVars, nodeVars, pubVars, subVars, finiVars, msgOutstanding, threadVars>>

\* #[derive(Clone)] on BoundedString<N>, applied to the value just built.
BoundedStringClone ==
    /\ lastOp.op \in {"BoundedString::try_from", "BoundedString::default"}
    /\ lastOp.tag = "Ok"
    /\ lastOp' = [lastOp EXCEPT !.op = "BoundedString::clone", !.res = StringClone(lastOp.res)]
    /\ UNCHANGED <<ctxVars, nodeVars, pubVars, subVars, finiVars, msgOutstanding, threadVars>>

\* impl TryFrom<&str> for BoundedWString<N>.
BoundedWStringTryFrom(N, s) ==
    /\ lastOp' = [Op("BoundedWString::try_from", 0, "Ok",
                      IF BoundedWStringFits(s, N) THEN "Ok" ELSE "Err", "unit", NoSubs, NoSubs)
                     EXCEPT !.arg = [bound |-> N, s |-> s],
                            !.res = IF BoundedWStringFits(s, N) THEN WStringFrom(s)
                                    ELSE StringExceedsBoundsError(Len(as_bytes(s)), N)]
    /\ UNCHANGED <<ctxVars, nodeVars, pubVars, subVars, finiVars, msgOutstanding, threadVars>>

\* ------------------------------------------------------------- SpecData
\* The application converts values; no entity is created.
NextData ==
    \/ \E qos \in QoSProfile : QoSInto(qos)
    \/ \E N \in StringBounds, s \in Strs : BoundedStringTryFrom(N, s)
    \/ \E N \in StringBounds : BoundedStringDefault(N)
    \/ BoundedStringClone
    \/ \E N \in StringBounds, s \in Strs : BoundedWStringTryFrom(N, s)

SpecData == Init /\ [][NextData]_vars

\* ------------------------------------------------------------ SpecConc
\* The application has created a context, a node on it and the node's
\* subscriptions, and holds them all; threads then work on them.
InitConc ==
    /\ ctxObj = [c \in Ctxs |-> c = 1]
    /\ ctxStrong = [c \in Ctxs |-> IF c = 1 THEN 2 ELSE 0]
    /\ ctxState = [c \in Ctxs |-> IF c = 1 THEN "active" ELSE "none"]
    /\ nodeObj = [n \in Nodes |-> n = 1]
    /\ nodeStrong = [n \in Nodes |-> IF n = 1 THEN 1 + MaxSubscriptions ELSE 0]
    /\ nodeState = [n \in Nodes |-> IF n = 1 THEN "active" ELSE "none"]
    /\ nodeCtx = [n \in Nodes |-> IF n = 1 THEN 1 ELSE 0]
    /\ nodeNs = [n \in Nodes |-> IF n = 1 THEN NodeNamespace(DefaultNamespace) ELSE NoNamespace]
    /\ nodeSubs = [n \in Nodes |-> IF n = 1 THEN [i \in Subs |-> i] ELSE <<>>]
    /\ pubObj = [p \in Pubs |-> FALSE]
    /\ pubState = [p \in Pubs |-> "none"]
    /\ pubNode = [p \in Pubs |-> 0]
    /\ subApp = [s \in Subs |-> 1]
    /\ subStrong = [s \in Subs |-> 1]
    /\ subState = [s \in Subs |-> "active"]
    /\ subNode = [s \in Subs |-> 1]
    /\ NoFini /\ NoThreads /\ lastOp = NoResult /\ msgOutstanding = 0

objVars == <<ctxVars, nodeVars, pubVars, subVars, finiVars, lastOp>>

\* Mutant: lock() returns the guard without waiting for the holder.
MutexNeverBlocks(holder) == TRUE

\* Mutex::lock on a handle (ContextHandle::lock, NodeHandle::lock,
\* PublisherHandle::lock, SubscriptionHandle::lock): blocks the calling
\* thread until the mutex can be acquired.
MutexFree(holder) == holder = 0

\* Mutant: the guard is leaked and the mutex stays locked by the thread.
GuardLeaked(holder) == holder

\* The MutexGuard goes out of scope at the end of the function that took it:
\* the mutex is free again.
GuardDrop(holder) == 0

\* Mutant: callback_ext runs the callback without taking its mutex.
CallbackUnguarded(holder) == TRUE

\* self.callback.lock() in callback_ext.
CallbackMutexFree(holder) == holder = 0

\* The statuses a native call made by a thread returns: no result is recorded
\* for threads, so the unspecified error stands for every failure status.
Outcome(failures) == {"Ok"} \cup (failures \cap {"Error"})

\* A thread enters a handler on object `obj`.
Begin(t, where, obj) ==
    /\ pc[t] = "idle"
    /\ pc' = [pc EXCEPT ![t] = where]
    /\ tgt' = [tgt EXCEPT ![t] = obj]

\* The handler returns to its caller.
End(t) ==
    /\ pc' = [pc EXCEPT ![t] = "idle"]
    /\ tgt' = [tgt EXCEPT ![t] = 0]

\* Context::ok, line 114: self.handle.lock().
OkBegin(t, c) ==
    /\ ctxObj[c]
    /\ Begin(t, "ok_lock", c)
    /\ UNCHANGED <<objVars, lockVars, msgOutstanding>>

OkAcquire(t) ==
    /\ pc[t] = "ok_lock"
    /\ MutexFree(ctxLock[tgt[t]])
    /\ ctxLock' = [ctxLock EXCEPT ![tgt[t]] = t]
    /\ pc' = [pc EXCEPT ![t] = "ok_native"]
    /\ UNCHANGED <<objVars, tgt, nodeLock, pubLock, subLock, cbLock, msgOutstanding>>

\* rcl_context_is_valid returns; the guard is dropped at the end of ok().
OkReturn(t) ==
    /\ pc[t] = "ok_native"
    /\ ctxLock' = [ctxLock EXCEPT ![tgt[t]] = GuardDrop(@)]
    /\ End(t)
    /\ UNCHANGED <<objVars, nodeLock, pubLock, subLock, cbLock, msgOutstanding>>

\* Node::new_with_namespace, line 121: context.handle.lock().
NodeNewBegin(t, c) ==
    /\ ctxObj[c]
    /\ Begin(t, "node_lock", c)
    /\ UNCHANGED <<objVars, lockVars, msgOutstanding>>

NodeNewAcquire(t) ==
    /\ pc[t] = "node_lock"
    /\ MutexFree(ctxLock[tgt[t]])
    /\ ctxLock' = [ctxLock EXCEPT ![tgt[t]] = t]
    /\ pc' = [pc EXCEPT ![t] = "node_native"]
    /\ UNCHANGED <<objVars, tgt, nodeLock, pubLock, subLock, cbLock, msgOutstanding>>

\* rcl_node_init returns `status`; the Node is built and the guard dropped
\* when new_with_namespace returns.
NodeNewReturn(t, status) ==
    /\ pc[t] = "node_native"
    /\ LET c == tgt[t] IN
       IF status = "Ok"
       THEN /\ HasFresh(nodeState, Nodes)
            /\ LET n == Fresh(nodeState, Nodes) IN
               /\ nodeObj' = [nodeObj EXCEPT ![n] = TRUE]
               /\ nodeStrong' = [nodeStrong EXCEPT ![n] = 1]
               /\ nodeState' = [nodeState EXCEPT ![n] = "active"]
               /\ nodeCtx' = [nodeCtx EXCEPT ![n] = c]
               /\ nodeNs' = [nodeNs EXCEPT ![n] = NodeNamespace(DefaultNamespace)]
               /\ nodeSubs' = [nodeSubs EXCEPT ![n] = <<>>]
               /\ ctxStrong' = NodeContextRef(ctxStrong, c)
       ELSE UNCHANGED <<nodeVars, ctxStrong>>
    /\ ctxLock' = [ctxLock EXCEPT ![tgt[t]] = GuardDrop(@)]
    /\ End(t)
    /\ UNCHANGED <<ctxObj, ctxState, pubVars, subVars, finiVars, lastOp, nodeLock,
                   pubLock, subLock, cbLock, msgOutstanding>>

\* Mutant: every node shares the mutex of the first one.
OneNodeGuard(n) == 1

\* NodeHandle(Mutex<rcl_node_t>): each node is guarded by the mutex in its
\* own handle.
NodeGuard(n) == n

\* Calls made through a reference to the Node: &mut Node for
\* create_subscription, up to and including the push onto
\* self.subscriptions, &Node for create_publisher / Publisher::new and
\* Subscription::new.
NodeMutPlaces == {"csub_lock", "csub_native", "csub_push"}
NodeBorrowPlaces == {"pubnew_lock", "pubnew_native", "subnew_lock", "subnew_native"} \cup NodeMutPlaces

\* Threads inside such a call on node `n`. In "csub_push" the thread's
\* object is the subscription Subscription::new returned to it.
InNode(places, n) ==
    {t \in Threads : /\ pc[t] \in places
                     /\ n = IF pc[t] = "csub_push" THEN subNode[tgt[t]] ELSE tgt[t]}

\* fn drop(&mut self) with self.handle.get_mut(), and every function taking
\* &mut self: it runs only when no call through another reference to the
\* object is left.
SoleOwner(users) == users = {}

\* Publisher::new, line 110: node.handle.lock(). It takes &Node, which
\* cannot coexist with the &mut Node of create_subscription.
PublisherNewBegin(t, n) ==
    /\ nodeObj[n]
    /\ SoleOwner(InNode(NodeMutPlaces, n))
    /\ Begin(t, "pubnew_lock", n)
    /\ UNCHANGED <<objVars, lockVars, msgOutstanding>>

PublisherNewAcquire(t) ==
    /\ pc[t] = "pubnew_lock"
    /\ MutexFree(nodeLock[NodeGuard(tgt[t])])
    /\ nodeLock' = [nodeLock EXCEPT ![NodeGuard(tgt[t])] = t]
    /\ pc' = [pc EXCEPT ![t] = "pubnew_native"]
    /\ UNCHANGED <<objVars, tgt, ctxLock, pubLock, subLock, cbLock, msgOutstanding>>

\* rcl_publisher_init returns `status`.
PublisherNewReturn(t, status) ==
    /\ pc[t] = "pubnew_native"
    /\ LET n == tgt[t] IN
       IF status = "Ok"
       THEN /\ HasFresh(pubState, Pubs)
            /\ LET p == Fresh(pubState, Pubs) IN
               /\ pubObj' = [pubObj EXCEPT ![p] = TRUE]
               /\ pubState' = [pubState EXCEPT ![p] = "active"]
               /\ pubNode' = [pubNode EXCEPT ![p] = n]
               /\ nodeStrong' = PublisherNodeRef(nodeStrong, n)
       ELSE UNCHANGED <<pubVars, nodeStrong>>
    /\ nodeLock' = [nodeLock EXCEPT ![NodeGuard(tgt[t])] = GuardDrop(@)]
    /\ End(t)
    /\ UNCHANGED <<ctxVars, nodeObj, nodeState, nodeCtx, nodeNs, nodeSubs, subVars, finiVars, lastOp,
                   ctxLock, pubLock, subLock, cbLock, msgOutstanding>>

\* Publisher::publish, lines 149-150: message.get_native_message(), then
\* self.handle.lock().
PublishBegin(t, p) ==
    /\ pubObj[p]
    /\ Begin(t, "publish_lock", p)
    /\ msgOutstanding' = msgOutstanding + 1
    /\ UNCHANGED <<objVars, lockVars>>

PublishAcquire(t) ==
    /\ pc[t] = "publish_lock"
    /\ MutexFree(pubLock[tgt[t]])
    /\ pubLock' = [pubLock EXCEPT ![tgt[t]] = t]
    /\ pc' = [pc EXCEPT ![t] = "publish_native"]
    /\ UNCHANGED <<objVars, tgt, ctxLock, nodeLock, subLock, cbLock, msgOutstanding>>

\* rcl_publish returns `status`; destroy_native_message; ret.ok().
PublishReturn(t, status) ==
    /\ pc[t] = "publish_native"
    /\ to_rcl_result(status).tag \in {"Ok", "Err"}
    /\ msgOutstanding' = msgOutstanding - PublishReleases(status)
    /\ pubLock' = [pubLock EXCEPT ![tgt[t]] = GuardDrop(@)]
    /\ End(t)
    /\ UNCHANGED <<objVars, ctxLock, nodeLock, subLock, cbLock>>

\* SubscriptionHandle { handle: Mutex<rcl_subscription_t>, .. }: each
\* subscription is guarded by the mutex in its own handle.
SubscriptionGuard(s) == s

\* SubscriptionBase::take, line 92: self.handle().lock().
TakeBegin(t, s) ==
    /\ subApp[s] > 0
    /\ Begin(t, "take_lock", s)
    /\ UNCHANGED <<objVars, lockVars, msgOutstanding>>

\* The guard is acquired; message.get_native_message(); rcl_take is called.
TakeAcquire(t) ==
    /\ pc[t] = "take_lock"
    /\ MutexFree(subLock[SubscriptionGuard(tgt[t])])
    /\ subLock' = [subLock EXCEPT ![SubscriptionGuard(tgt[t])] = t]
    /\ msgOutstanding' = msgOutstanding + 1
    /\ pc' = [pc EXCEPT ![t] = "take_native"]
    /\ UNCHANGED <<objVars, tgt, ctxLock, nodeLock, pubLock, cbLock>>

\* rcl_take returns `status`; the match; destroy_native_message.
TakeReturn(t, status) ==
    /\ pc[t] = "take_native"
    /\ TakeOutcome(status).tag \in {"Ok", "Err"}
    /\ msgOutstanding' = msgOutstanding - 1
    /\ subLock' = [subLock EXCEPT ![SubscriptionGuard(tgt[t])] = GuardDrop(@)]
    /\ End(t)
    /\ UNCHANGED <<objVars, ctxLock, nodeLock, pubLock, cbLock>>

\* Subscription::take, line 218: self.handle.lock().
TypedTakeBegin(t, s) ==
    /\ subApp[s] > 0
    /\ Begin(t, "ttake_lock", s)
    /\ UNCHANGED <<objVars, lockVars, msgOutstanding>>

TypedTakeAcquire(t) ==
    /\ pc[t] = "ttake_lock"
    /\ MutexFree(subLock[SubscriptionGuard(tgt[t])])
    /\ subLock' = [subLock EXCEPT ![SubscriptionGuard(tgt[t])] = t]
    /\ msgOutstanding' = msgOutstanding + 1
    /\ pc' = [pc EXCEPT ![t] = "ttake_native"]
    /\ UNCHANGED <<objVars, tgt, ctxLock, nodeLock, pubLock, cbLock>>

\* rcl_take returns `status`; read_handle; destroy_native_message; ret.ok().
TypedTakeReturn(t, status) ==
    /\ pc[t] = "ttake_native"
    /\ TypedTakeOutcome(status).tag \in {"Ok", "Err"}
    /\ msgOutstanding' = msgOutstanding - 1
    /\ subLock' = [subLock EXCEPT ![SubscriptionGuard(tgt[t])] = GuardDrop(@)]
    /\ End(t)
    /\ UNCHANGED <<objVars, ctxLock, nodeLock, pubLock, cbLock>>

\* The application itself, as the holder of a guard it took through the
\* public field Subscription::handle; it is none of the threads inside an
\* operation.
AppHolder == NumThreads + 1

\* SubscriptionHandle::lock called by the application: it returns once the
\* mutex is acquired, and the application keeps the guard.
AppSubscriptionLock(s) ==
    /\ subApp[s] > 0
    /\ MutexFree(subLock[SubscriptionGuard(s)])
    /\ subLock' = [subLock EXCEPT ![SubscriptionGuard(s)] = AppHolder]
    /\ UNCHANGED <<objVars, pc, tgt, ctxLock, nodeLock, pubLock, cbLock, msgOutstanding>>

\* SubscriptionHandle::try_lock called by the application: Some(guard) when
\* the mutex is free, None at once when it is not.
AppSubscriptionTryLock(s) ==
    /\ subApp[s] > 0
    /\ subLock' = [subLock EXCEPT ![SubscriptionGuard(s)] = IF MutexFree(@) THEN AppHolder ELSE @]
    /\ UNCHANGED <<objVars, pc, tgt, ctxLock, nodeLock, pubLock, cbLock, msgOutstanding>>

\* The application drops the guard it took.
AppSubscriptionUnlock(s) ==
    /\ subLock[SubscriptionGuard(s)] = AppHolder
    /\ subLock' = [subLock EXCEPT ![SubscriptionGuard(s)] = GuardDrop(@)]
    /\ UNCHANGED <<objVars, pc, tgt, ctxLock, nodeLock, pubLock, cbLock, msgOutstanding>>

\* What the application does with the guards of its subscriptions.
AppStep ==
    \E s \in Subs : AppSubscriptionLock(s) \/ AppSubscriptionTryLock(s) \/ AppSubscriptionUnlock(s)

\* callback_fn(message) -> callback_ext: downcast, then self.callback.lock().
CallbackBegin(t, s) ==
    /\ subApp[s] > 0
    /\ Begin(t, "cb_lock", s)
    /\ UNCHANGED <<objVars, lockVars, msgOutstanding>>

\* The callback mutex is acquired and the stored callback starts to run.
CallbackAcquire(t) ==
    /\ pc[t] = "cb_lock"
    /\ CallbackMutexFree(cbLock[tgt[t]])
    /\ cbLock' = [cbLock EXCEPT ![tgt[t]] = t]
    /\ pc' = [pc EXCEPT ![t] = "cb_run"]
    /\ UNCHANGED <<objVars, tgt, ctxLock, nodeLock, pubLock, subLock, msgOutstanding>>

\* The callback returns; the guard is dropped; Ok(()).
CallbackReturn(t) ==
    /\ pc[t] = "cb_run"
    /\ cbLock' = [cbLock EXCEPT ![tgt[t]] = GuardDrop(@)]
    /\ End(t)
    /\ UNCHANGED <<objVars, ctxLock, nodeLock, pubLock, subLock, msgOutstanding>>

NextConc ==
    \/ \E t \in Threads, c \in Ctxs : OkBegin(t, c)
    \/ \E t \in Threads : OkAcquire(t)
    \/ \E t \in Threads : OkReturn(t)
    \/ \E t \in Threads, c \in Ctxs : NodeNewBegin(t, c)
    \/ \E t \in Threads : NodeNewAcquire(t)
    \/ \E t \in Threads, st \in Outcome(NodeInitFailures) : NodeNewReturn(t, st)
    \/ \E t \in Threads, n \in Nodes : PublisherNewBegin(t, n)
    \/ \E t \in Threads : PublisherNewAcquire(t)
    \/ \E t \in Threads, st \in Outcome(EndpointInitFailures) : PublisherNewReturn(t, st)
    \/ \E t \in Threads, p \in Pubs : PublishBegin(t, p)
    \/ \E t \in Threads : PublishAcquire(t)
    \/ \E t \in Threads, st \in Outcome(PublishFailures) : PublishReturn(t, st)
    \/ \E t \in Threads, s \in Subs : TakeBegin(t, s)
    \/ \E t \in Threads : TakeAcquire(t)
    \/ \E t \in Threads, st \in Outcome(TakeFailures) : TakeReturn(t, st)
    \/ \E t \in Threads, s \in Subs : TypedTakeBegin(t, s)
    \/ \E t \in Threads : TypedTakeAcquire(t)
    \/ \E t \in Threads, st \in Outcome(TakeFailures) : TypedTakeReturn(t, st)
    \/ \E t \in Threads, s \in Subs : CallbackBegin(t, s)
    \/ \E t \in Threads : CallbackAcquire(t)
    \/ \E t \in Threads : CallbackReturn(t)
    \/ AppStep

SpecConc == InitConc /\ [][NextConc]_vars

\* ------------------------------------------------------ endpoint drops
\* Threads that are inside a call made through a reference to object `obj`.
InCall(places, obj) == {t \in Threads : pc[t] \in places /\ tgt[t] = obj}

PublishPlaces == {"publish_lock", "publish_native"}
TakePlaces == {"take_lock", "take_native", "ttake_lock", "ttake_native", "cb_lock", "cb_run"}

\* The Publisher is dropped: PublisherHandle::drop, line 56:
\* self.node_handle.lock().
PublisherDropBegin(t, p) ==
    /\ pubObj[p]
    /\ SoleOwner(InCall(PublishPlaces, p))
    /\ Begin(t, "pubdrop_lock", p)
    /\ pubObj' = [pubObj EXCEPT ![p] = FALSE]
    /\ UNCHANGED <<ctxVars, nodeVars, pubState, pubNode, subVars, finiVars, lastOp,
                   lockVars, msgOutstanding>>

PublisherDropAcquire(t) ==
    /\ pc[t] = "pubdrop_lock"
    /\ MutexFree(nodeLock[NodeGuard(pubNode[tgt[t]])])
    /\ nodeLock' = [nodeLock EXCEPT ![NodeGuard(pubNode[tgt[t]])] = t]
    /\ pc' = [pc EXCEPT ![t] = "pubdrop_native"]
    /\ UNCHANGED <<objVars, tgt, ctxLock, pubLock, subLock, cbLock, msgOutstanding>>

\* rcl_publisher_fini returns and the drop body ends, releasing the guard.
\* The fields of the PublisherHandle are still to be dropped.
PublisherDropReturn(t) ==
    /\ pc[t] = "pubdrop_native"
    /\ LET d == PublisherHandleDrop(tgt[t]) IN
       /\ pubState' = d.pstate
       /\ pubFiniAt' = d.pfiniAt
    /\ nodeLock' = [nodeLock EXCEPT ![NodeGuard(pubNode[tgt[t]])] = GuardDrop(@)]
    /\ pc' = [pc EXCEPT ![t] = "pubdrop_fields"]
    /\ UNCHANGED <<ctxVars, nodeVars, pubObj, pubNode, subVars, nodeFiniAt, subFiniAt, lastOp,
                   tgt, ctxLock, pubLock, subLock, cbLock, msgOutstanding>>

\* The node_handle field, an Arc<NodeHandle>, is dropped after the body.
\* When it is the last one the thread goes on into NodeHandle::drop, which
\* calls rcl_node_fini with no guard held.
PublisherDropFields(t) ==
    /\ pc[t] = "pubdrop_fields"
    /\ LET n == pubNode[tgt[t]] IN
       /\ nodeStrong' = [nodeStrong EXCEPT ![n] = @ - 1]
       /\ IF LastArc(nodeStrong[n])
          THEN /\ pc' = [pc EXCEPT ![t] = "epfini_native"]
               /\ tgt' = [tgt EXCEPT ![t] = n]
          ELSE End(t)
    /\ UNCHANGED <<ctxVars, nodeObj, nodeState, nodeCtx, nodeNs, nodeSubs, pubVars, subVars,
                   finiVars, lastOp, lockVars, msgOutstanding>>

\* One Arc<Subscription> the application holds is dropped. A call in
\* progress on the subscription, or a guard the application took from it,
\* borrows one of the Arcs, which can therefore not be the one dropped unless
\* another is left. With the last Arc the Subscription is dropped and with
\* it its handle: SubscriptionHandle::drop, line 57: self.node_handle.lock().
SubscriptionDropBegin(t, s) ==
    /\ pc[t] = "idle"
    /\ subApp[s] > 0
    /\ \/ subApp[s] > 1
       \/ SoleOwner(InCall(TakePlaces, s) \cup ({AppHolder} \cap {subLock[SubscriptionGuard(s)]}))
    /\ subApp' = [subApp EXCEPT ![s] = @ - 1]
    /\ subStrong' = [subStrong EXCEPT ![s] = @ - 1]
    /\ IF LastArc(subStrong[s])
       THEN Begin(t, "subdrop_lock", s)
       ELSE UNCHANGED <<pc, tgt>>
    /\ UNCHANGED <<ctxVars, nodeVars, pubVars, subState, subNode, finiVars, lastOp,
                   lockVars, msgOutstanding>>

SubscriptionDropAcquire(t) ==
    /\ pc[t] = "subdrop_lock"
    /\ MutexFree(nodeLock[NodeGuard(subNode[tgt[t]])])
    /\ nodeLock' = [nodeLock EXCEPT ![NodeGuard(subNode[tgt[t]])] = t]
    /\ pc' = [pc EXCEPT ![t] = "subdrop_native"]
    /\ UNCHANGED <<objVars, tgt, ctxLock, pubLock, subLock, cbLock, msgOutstanding>>

\* rcl_subscription_fini returns and the drop body ends, releasing the
\* guard. The fields of the SubscriptionHandle are still to be dropped.
SubscriptionDropReturn(t) ==
    /\ pc[t] = "subdrop_native"
    /\ LET d == SubscriptionHandleDrop(tgt[t]) IN
       /\ subState' = d.sstate
       /\ subFiniAt' = d.sfiniAt
    /\ nodeLock' = [nodeLock EXCEPT ![NodeGuard(subNode[tgt[t]])] = GuardDrop(@)]
    /\ pc' = [pc EXCEPT ![t] = "subdrop_fields"]
    /\ UNCHANGED <<ctxVars, nodeVars, pubVars, subApp, subStrong, subNode, nodeFiniAt,
                   pubFiniAt, lastOp, tgt, ctxLock, pubLock, subLock, cbLock, msgOutstanding>>

\* The node_handle field is dropped after the body, as for a publisher.
SubscriptionDropFields(t) ==
    /\ pc[t] = "subdrop_fields"
    /\ LET n == subNode[tgt[t]] IN
       /\ nodeStrong' = [nodeStrong EXCEPT ![n] = @ - 1]
       /\ IF LastArc(nodeStrong[n])
          THEN /\ pc' = [pc EXCEPT ![t] = "epfini_native"]
               /\ tgt' = [tgt EXCEPT ![t] = n]
          ELSE End(t)
    /\ UNCHANGED <<ctxVars, nodeObj, nodeState, nodeCtx, nodeNs, nodeSubs, pubVars, subVars,
                   finiVars, lastOp, lockVars, msgOutstanding>>

\* ------------------------------------------------------------ SpecLife
\* Threads create, use and drop every kind of entity, starting with none.
\* Calls made through &Context.
ContextBorrowPlaces == {"ok_lock", "ok_native", "node_lock", "node_native"}

\* Context::default: Arc::new of the zero-initialized context, then
\* Context::init, line 70: self.handle.lock().
ContextInitBegin(t) ==
    /\ HasFresh(ctxState, Ctxs)
    /\ LET c == Fresh(ctxState, Ctxs) IN
       /\ Begin(t, "init_lock", c)
       /\ ctxState' = [ctxState EXCEPT ![c] = "zero"]
       /\ ctxStrong' = [ctxStrong EXCEPT ![c] = 1]
    /\ UNCHANGED <<ctxObj, nodeVars, pubVars, subVars, finiVars, lastOp, lockVars, msgOutstanding>>

ContextInitAcquire(t) ==
    /\ pc[t] = "init_lock"
    /\ MutexFree(ctxLock[tgt[t]])
    /\ ctxLock' = [ctxLock EXCEPT ![tgt[t]] = t]
    /\ pc' = [pc EXCEPT ![t] = "init_native"]
    /\ UNCHANGED <<objVars, tgt, nodeLock, pubLock, subLock, cbLock, msgOutstanding>>

\* rcl_init returns `status`. On success the thread goes on, still holding
\* the guard, into rcl_init_options_fini. On an error `.ok()?` returns from
\* init, which drops the guard; the unwrap in default panics and the
\* unwinding drops the only Arc<ContextHandle>: the thread enters
\* ContextHandle::drop, which calls rcl_shutdown holding no guard.
ContextInitReturn(t, status) ==
    /\ pc[t] = "init_native"
    /\ LET c == tgt[t] IN
       /\ ctxState' = rcl_init(c, ctxState, status)
       /\ IF to_rcl_result(status).tag = "Ok"
          THEN /\ pc' = [pc EXCEPT ![t] = "initfini_native"]
               /\ UNCHANGED <<ctxStrong, ctxLock>>
          ELSE /\ pc' = [pc EXCEPT ![t] = "shutdown_native"]
               /\ ctxStrong' = [ctxStrong EXCEPT ![c] = 0]
               /\ ctxLock' = [ctxLock EXCEPT ![c] = GuardDrop(@)]
    /\ UNCHANGED <<ctxObj, nodeVars, pubVars, subVars, finiVars, lastOp, tgt, nodeLock, pubLock,
                   subLock, cbLock, msgOutstanding>>

\* rcl_init_options_fini returns `fini`; init returns and drops its guard.
\* On success default returns the Context; on an error the unwrap panics and
\* the thread enters ContextHandle::drop as above, on the active context.
InitOptionsFiniReturn(t, fini) ==
    /\ pc[t] = "initfini_native"
    /\ LET c == tgt[t] IN
       IF ContextInitOutcome("Ok", fini).built
       THEN /\ ctxObj' = [ctxObj EXCEPT ![c] = TRUE]
            /\ End(t)
            /\ UNCHANGED ctxStrong
       ELSE /\ ctxStrong' = [ctxStrong EXCEPT ![c] = 0]
            /\ pc' = [pc EXCEPT ![t] = "shutdown_native"]
            /\ UNCHANGED <<ctxObj, tgt>>
    /\ ctxLock' = [ctxLock EXCEPT ![tgt[t]] = GuardDrop(@)]
    /\ UNCHANGED <<ctxState, nodeVars, pubVars, subVars, finiVars, lastOp, nodeLock, pubLock,
                   subLock, cbLock, msgOutstanding>>

\* rcl_shutdown, called by ContextHandle::drop during the unwinding, returns.
ContextShutdownReturn(t) ==
    /\ pc[t] = "shutdown_native"
    /\ ctxState' = ContextHandleDrop(tgt[t], ctxState)
    /\ End(t)
    /\ UNCHANGED <<ctxObj, ctxStrong, nodeVars, pubVars, subVars, finiVars, lastOp, lockVars,
                   msgOutstanding>>

\* The Context is dropped by the thread that owns it: no call through a
\* reference to it is left.
ContextDrop(t, c) ==
    /\ pc[t] = "idle"
    /\ ctxObj[c]
    /\ SoleOwner(InCall(ContextBorrowPlaces, c))
    /\ LET r == ContextRelease(c, ctxStrong, ctxState) IN
       /\ ctxObj' = [ctxObj EXCEPT ![c] = FALSE]
       /\ ctxStrong' = r.strong
       /\ ctxState' = r.state
    /\ UNCHANGED <<nodeVars, pubVars, subVars, finiVars, lastOp, threadVars, msgOutstanding>>

\* Node::create_subscription takes &mut Node, so no other call through the
\* Node is in progress; it calls Subscription::new, line 178:
\* node.handle.lock().
CreateSubscriptionBegin(t, n) ==
    /\ nodeObj[n]
    /\ SoleOwner(InNode(NodeBorrowPlaces, n))
    /\ Begin(t, "csub_lock", n)
    /\ UNCHANGED <<objVars, lockVars, msgOutstanding>>

\* Subscription::new called directly: it takes &Node, so it runs alongside
\* any other call through a shared reference to the Node.
SubscriptionNewBegin(t, n) ==
    /\ nodeObj[n]
    /\ SoleOwner(InNode(NodeMutPlaces, n))
    /\ Begin(t, "subnew_lock", n)
    /\ UNCHANGED <<objVars, lockVars, msgOutstanding>>

SubscriptionNewAcquire(t) ==
    /\ pc[t] \in {"subnew_lock", "csub_lock"}
    /\ MutexFree(nodeLock[NodeGuard(tgt[t])])
    /\ nodeLock' = [nodeLock EXCEPT ![NodeGuard(tgt[t])] = t]
    /\ pc' = [pc EXCEPT ![t] = IF pc[t] = "csub_lock" THEN "csub_native" ELSE "subnew_native"]
    /\ UNCHANGED <<objVars, tgt, ctxLock, pubLock, subLock, cbLock, msgOutstanding>>

\* rcl_subscription_init returns `status`; new drops its guard and returns
\* the Subscription by value (or the error). A direct caller now owns it;
\* create_subscription goes on to wrap and register it, holding no guard.
SubscriptionNewReturn(t, status) ==
    /\ pc[t] \in {"subnew_native", "csub_native"}
    /\ LET n == tgt[t]
           direct == pc[t] = "subnew_native"
       IN
       IF status = "Ok"
       THEN /\ HasFresh(subState, LifeSubs)
            /\ LET s == Fresh(subState, LifeSubs) IN
               /\ subApp' = [subApp EXCEPT ![s] = IF direct THEN 1 ELSE 0]
               /\ subStrong' = [subStrong EXCEPT ![s] = 1]
               /\ subState' = [subState EXCEPT ![s] = "active"]
               /\ subNode' = [subNode EXCEPT ![s] = n]
               /\ nodeStrong' = SubscriptionNodeRef(nodeStrong, n)
               /\ IF direct THEN End(t)
                  ELSE /\ pc' = [pc EXCEPT ![t] = "csub_push"]
                       /\ tgt' = [tgt EXCEPT ![t] = s]
       ELSE /\ End(t)
            /\ UNCHANGED <<subVars, nodeStrong>>
    /\ nodeLock' = [nodeLock EXCEPT ![NodeGuard(tgt[t])] = GuardDrop(@)]
    /\ UNCHANGED <<ctxVars, nodeObj, nodeState, nodeCtx, nodeNs, nodeSubs, pubVars, finiVars,
                   lastOp, ctxLock, pubLock, subLock, cbLock, msgOutstanding>>

\* create_subscription, lines 167-170: Arc::new, push of the downgraded Weak,
\* and the Arc is returned to the application.
CreateSubscriptionPush(t) ==
    /\ pc[t] = "csub_push"
    /\ LET s == tgt[t] IN
       /\ subApp' = [subApp EXCEPT ![s] = 1]
       /\ subStrong' = [subStrong EXCEPT ![s] = ArcDowngrade(@)]
       /\ nodeSubs' = [nodeSubs EXCEPT ![subNode[s]] = RegistryPush(@, s)]
    /\ End(t)
    /\ UNCHANGED <<ctxVars, nodeObj, nodeStrong, nodeState, nodeCtx, nodeNs, pubVars, subState,
                   subNode, finiVars, lastOp, lockVars, msgOutstanding>>

\* The Node is dropped by the thread that owns it. Its first field is the
\* Arc<NodeHandle>: with the last Arc, NodeHandle::drop calls rcl_node_fini
\* on self.0.get_mut(), taking no guard.
NodeDropBegin(t, n) ==
    /\ nodeObj[n]
    /\ SoleOwner(InNode(NodeBorrowPlaces, n))
    /\ nodeObj' = [nodeObj EXCEPT ![n] = FALSE]
    /\ nodeStrong' = [nodeStrong EXCEPT ![n] = @ - 1]
    /\ IF LastArc(nodeStrong[n])
       THEN Begin(t, "nodefini_native", n)
       ELSE Begin(t, "nodedrop_context", n)
    /\ UNCHANGED <<ctxVars, nodeState, nodeCtx, nodeNs, nodeSubs, pubVars, subVars, finiVars,
                   lastOp, lockVars, msgOutstanding>>

\* rcl_node_fini, called by NodeHandle::drop for the Node's Arc, returns.
NodeFiniReturn(t) ==
    /\ pc[t] = "nodefini_native"
    /\ LET d == NodeHandleDrop(tgt[t], nodeState, nodeFiniAt, ctxState) IN
       /\ nodeState' = d.state
       /\ nodeFiniAt' = d.finiAt
    /\ pc' = [pc EXCEPT ![t] = "nodedrop_context"]
    /\ UNCHANGED <<ctxVars, nodeObj, nodeStrong, nodeCtx, nodeNs, nodeSubs, pubVars, subVars,
                   pubFiniAt, subFiniAt, lastOp, tgt, lockVars, msgOutstanding>>

\* rcl_node_fini, called by NodeHandle::drop for the Arc a publisher or
\* subscription handle held, returns; the endpoint's drop is complete.
EndpointNodeFiniReturn(t) ==
    /\ pc[t] = "epfini_native"
    /\ LET d == NodeHandleDrop(tgt[t], nodeState, nodeFiniAt, ctxState) IN
       /\ nodeState' = d.state
       /\ nodeFiniAt' = d.finiAt
    /\ End(t)
    /\ UNCHANGED <<ctxVars, nodeObj, nodeStrong, nodeCtx, nodeNs, nodeSubs, pubVars, subVars,
                   pubFiniAt, subFiniAt, lastOp, lockVars, msgOutstanding>>

\* The Node's remaining fields are dropped: its Arc<ContextHandle>, then the
\* vector of Weak.
NodeDropReturn(t) ==
    /\ pc[t] = "nodedrop_context"
    /\ LET r == ContextRelease(nodeCtx[tgt[t]], ctxStrong, ctxState) IN
       /\ ctxStrong' = r.strong
       /\ ctxState' = r.state
    /\ nodeSubs' = [nodeSubs EXCEPT ![tgt[t]] = <<>>]
    /\ End(t)
    /\ UNCHANGED <<ctxObj, nodeObj, nodeStrong, nodeState, nodeCtx, nodeNs, pubVars, subVars,
                   finiVars, lastOp, lockVars, msgOutstanding>>

\* What a thread does next once it is inside an operation.
AcquireStep(t) ==
    \/ ContextInitAcquire(t) \/ OkAcquire(t) \/ NodeNewAcquire(t)
    \/ PublisherNewAcquire(t) \/ SubscriptionNewAcquire(t)
    \/ PublishAcquire(t) \/ TakeAcquire(t) \/ TypedTakeAcquire(t) \/ CallbackAcquire(t)
    \/ PublisherDropAcquire(t) \/ SubscriptionDropAcquire(t)

ReturnStep(t) ==
    \/ \E st \in Outcome(InitFailures) : ContextInitReturn(t, st)
    \/ \E fini \in Outcome(InitFailures) : InitOptionsFiniReturn(t, fini)
    \/ ContextShutdownReturn(t)
    \/ OkReturn(t)
    \/ \E st \in Outcome(NodeInitFailures) : NodeNewReturn(t, st)
    \/ \E st \in Outcome(EndpointInitFailures) : PublisherNewReturn(t, st)
    \/ \E st \in Outcome(EndpointInitFailures) : SubscriptionNewReturn(t, st)
    \/ \E st \in Outcome(PublishFailures) : PublishReturn(t, st)
    \/ \E st \in Outcome(TakeFailures) : TakeReturn(t, st)
    \/ \E st \in Outcome(TakeFailures) : TypedTakeReturn(t, st)
    \/ CallbackReturn(t) \/ CreateSubscriptionPush(t)
    \/ PublisherDropReturn(t) \/ PublisherDropFields(t)
    \/ SubscriptionDropReturn(t) \/ SubscriptionDropFields(t)
    \/ NodeFiniReturn(t) \/ NodeDropReturn(t) \/ EndpointNodeFiniReturn(t)

BeginStep(t) ==
    \/ ContextInitBegin(t)
    \/ \E c \in Ctxs : OkBegin(t, c) \/ NodeNewBegin(t, c) \/ ContextDrop(t, c)
    \/ \E n \in Nodes : \/ PublisherNewBegin(t, n) \/ NodeDropBegin(t, n)
                        \/ CreateSubscriptionBegin(t, n) \/ SubscriptionNewBegin(t, n)
    \/ \E p \in Pubs : PublishBegin(t, p) \/ PublisherDropBegin(t, p)
    \/ \E s \in Subs : \/ TakeBegin(t, s) \/ TypedTakeBegin(t, s) \/ CallbackBegin(t, s)
                       \/ SubscriptionDropBegin(t, s)

\* The application also clones the Arc<Subscription> it holds.
NextLife ==
    \/ \E t \in Threads : BeginStep(t) \/ AcquireStep(t) \/ ReturnStep(t)
    \/ \E s \in Subs : CloneSubscription(s)
    \/ AppStep

SpecLife == Init /\ [][NextLife]_vars

\* Fair scheduling: a thread that can go on does go on. A thread inside
\* a native call returns from it, and a thread waiting for a guard gets it
\* when the guard stays free; nothing is assumed about which waiting thread
\* a mutex that is taken again and again serves.
Fairness == \A t \in Threads : WF_vars(ReturnStep(t)) /\ WF_vars(AcquireStep(t))

SpecFair == SpecLife /\ Fairness

\* ------------------------------------------------------- claims (Spec)
RegistrySet(n) == {nodeSubs[n][i] : i \in 1..Len(nodeSubs[n])}

\* C1: for every order of drops, a node's native fini is invoked strictly
\* before the shutdown of the context the node was created under: no context
\* is shut down while a node created under it is not yet finalized, and no
\* rcl_node_fini runs on a node whose context is already shut down.
C1_NodeFiniBeforeContextShutdown ==
    \A n \in Nodes : nodeState[n] # "none" =>
        /\ ctxState[nodeCtx[n]] = "shutdown" => nodeState[n] = "finalized"
        /\ nodeFiniAt[n] \in {"none", "active"}

\* C2: while a Node object created from a context is alive the context's
\* native resource is not shut down, whether or not the application still
\* holds the Context object.
C2_ContextOutlivesNodes ==
    \A n \in Nodes : nodeObj[n] => ctxState[nodeCtx[n]] = "active"

\* C2 witness: the Context object was dropped while a Node of it lives on.
C2_Witness ==
    \E n \in Nodes : nodeObj[n] /\ ~ctxObj[nodeCtx[n]] /\ ctxState[nodeCtx[n]] = "active"

\* C3: the native fini of every publisher and subscription is invoked before
\* the native fini of its node: no node is finalized while an endpoint
\* attached to it is not, and no endpoint fini runs on a finalized node.
C3_EndpointFiniBeforeNodeFini ==
    /\ \A p \in Pubs : pubState[p] # "none" =>
          /\ nodeState[pubNode[p]] = "finalized" => pubState[p] = "finalized"
          /\ pubFiniAt[p] \in {"none", "active"}
    /\ \A s \in Subs : subState[s] # "none" =>
          /\ nodeState[subNode[s]] = "finalized" => subState[s] = "finalized"
          /\ subFiniAt[s] \in {"none", "active"}

\* C3 witness: the Node object was dropped first, a publisher and a
\* subscription of it still exist and the node's native resource is active.
C3_Witness ==
    \E p \in Pubs, s \in Subs :
        /\ pubObj[p] /\ subApp[s] > 0 /\ pubNode[p] = subNode[s]
        /\ ~nodeObj[pubNode[p]] /\ nodeState[pubNode[p]] = "active"

\* C4: a dispatch pass issues a native take and invokes the callback only on
\* subscriptions of which the application still holds a strong handle and
\* whose native resource is not finalized.
C4_DispatchSkipsDropped ==
    lastOp.op = "dispatch" =>
        \A s \in lastOp.took \cup lastOp.called : subApp[s] > 0 /\ subState[s] = "active"

\* C4 witness: a pass over a node one of whose subscriptions was dropped ran
\* the callback of another one.
C4_Witness ==
    /\ lastOp.op = "dispatch" /\ lastOp.called # {}
    /\ \E s \in Subs : subNode[s] = lastOp.obj /\ subState[s] = "finalized"

\* C5: the registry never keeps a subscription alive: once the application
\* holds no strong handle of a created subscription, its native resource is
\* finalized and its registry entry no longer resolves.
C5_RegistryNeverKeepsAlive ==
    \A s \in Subs : (subState[s] # "none" /\ subApp[s] = 0) =>
        /\ subState[s] = "finalized"
        /\ subStrong[s] = 0
        /\ ~WeakUpgrade(s)

\* C5 witness: the node is alive and still lists a subscription whose last
\* strong handle was dropped.
C5_Witness ==
    \E n \in Nodes : nodeObj[n] /\ \E s \in RegistrySet(n) :
        subApp[s] = 0 /\ subState[s] = "finalized" /\ subFiniAt[s] = "active"

\* C6: a take that finds no message (rcl_take reports take-failed) returns
\* the "empty" outcome rather than an error, for the typed Subscription::take
\* and the type-erased SubscriptionBase::take alike, and does not invoke the
\* stored callback.
C6_TakeEmptyIsNotAnError ==
    (lastOp.op \in {"take", "Subscription::take"} /\ lastOp.native = "SubscriptionTakeFailed")
        => lastOp.tag = "Ok" /\ lastOp.called = NoSubs

\* C7: SubscriptionBase::take maps native success to Ok(true), native
\* take-failed to Ok(false) and every other native status to Err carrying that
\* same status; a fault is never reported as empty nor empty as a fault.
C7_TakeClassification ==
    lastOp.op = "take" =>
        /\ lastOp.native = "Ok" => lastOp.tag = "Ok" /\ lastOp.val = "true"
        /\ lastOp.native = "SubscriptionTakeFailed" => lastOp.tag = "Ok" /\ lastOp.val = "false"
        /\ lastOp.native \notin {"Ok", "SubscriptionTakeFailed"} =>
               lastOp.tag = "Err" /\ lastOp.val = lastOp.native

C7_Witness ==
    /\ lastOp.op = "take"
    /\ lastOp.native = "SubscriptionInvalid"
    /\ lastOp.tag = "Err"

\* C8: after any sequence of successful and failing publish calls as many
\* native messages have been released as were obtained, and each publish
\* released the one it obtained exactly once.
C8_PublishReleasesMessage ==
    /\ msgOutstanding = 0
    /\ lastOp.op = "publish" => lastOp.obtained = 1 /\ lastOp.released = 1

C8_Witness ==
    /\ lastOp.op = "publish"
    /\ lastOp.tag = "Err"
    /\ lastOp.released = 1
    /\ msgOutstanding = 0

\* C31: SubscriptionBase::take obtains one native representation and
\* releases it exactly once whether a message was taken, none was available
\* or the native call faulted; the caller's message receives the native
\* content only when a message was taken, and is otherwise what it was.
C31_TakeReleasesOnceReadsOnSuccess ==
    /\ msgOutstanding = 0
    /\ lastOp.op = "take" =>
          /\ lastOp.obtained = 1 /\ lastOp.released = 1
          /\ lastOp.read <=> lastOp.native = "Ok"
          /\ lastOp.native = "Ok" => lastOp.res = "received"
          /\ lastOp.native # "Ok" => lastOp.res = lastOp.arg

C31_Witness ==
    /\ lastOp.op = "take"
    /\ lastOp.native = "SubscriptionTakeFailed"
    /\ lastOp.tag = "Ok" /\ lastOp.val = "false"
    /\ lastOp.released = 1
    /\ lastOp.res = CallerMessage

\* C32: a context initialization finalizes the init-options object it
\* initialized exactly once, whether the native context init succeeded or
\* reported an error.
C32_InitOptionsFinalizedOnce ==
    lastOp.op = "Context::default" => lastOp.optInit = 1 /\ lastOp.optFini = 1

\* C13: when a native fini call reports a failure status during the
\* destruction of a context, node, publisher or subscription, the destroying
\* thread does not panic and the destruction completes.
C13_FiniFailureDoesNotPanic ==
    (lastOp.op = "NodeHandle::drop" /\ lastOp.native # "Ok") =>
        lastOp.tag # "Panic" /\ nodeState[lastOp.obj] = "finalized"

\* C14 (as stated): when rcl_init reports invalid-argument, already-initialized,
\* allocation-failure or an unspecified error, context creation fails with an
\* error outcome delivered to the caller that identifies the status, and no
\* usable Context is returned.
C14_Original ==
    (lastOp.op = "Context::default" /\ lastOp.native \in InitFailures) =>
        /\ lastOp.tag = "Err" /\ lastOp.val = lastOp.native
        /\ ~ctxObj[lastOp.obj]

\* C14 (amended): when rcl_init reports one of the four failure statuses,
\* context creation fails by panicking with that status instead of handing
\* the caller an error outcome, and no Context is returned.
C14_InitFailurePanics ==
    (lastOp.op = "Context::default" /\ lastOp.native \in InitFailures) =>
        /\ lastOp.tag = "Panic" /\ lastOp.val = lastOp.native
        /\ ~ctxObj[lastOp.obj]

C14_Witness ==
    /\ lastOp.op = "Context::default"
    /\ lastOp.native = "AlreadyInit"
    /\ lastOp.tag = "Panic"
    /\ ~ctxObj[lastOp.obj]

\* The application-visible objects and the strong counts of all handles.
entities == <<ctxObj, ctxStrong, nodeObj, nodeStrong, pubObj, subApp, subStrong,
              ctxState, nodeState, pubState, subState, nodeSubs>>

\* C15: node, publisher and subscription construction and publish issue their
\* native call exactly once; when it reports a failure the operation returns
\* an error carrying that same status, no entity comes into being and every
\* strong count, the parent's included, is left as it was.
C15_FailurePropagatesOnce ==
    [][ lastOp'.op \in {"Node::new", "Publisher::new", "Subscription::new", "create_subscription",
                        "publish"} =>
          /\ lastOp'.calls = 1
          /\ lastOp'.native # "Ok" =>
                 /\ lastOp'.tag = "Err" /\ lastOp'.val = lastOp'.native
                 /\ UNCHANGED entities ]_vars

C15_Witness ==
    /\ lastOp.op = "create_subscription"
    /\ lastOp.native = "TopicNameInvalid"
    /\ lastOp.tag = "Err"
    /\ \E n \in Nodes : nodeObj[n] /\ nodeStrong[n] = 1 /\ nodeSubs[n] = <<>>

\* C16: every native resource moves one way, zero-initialized -> active ->
\* finalized: its fini is invoked at most once, no publish, take, is_valid or
\* init of a child is issued on it after its fini, and it is never
\* initialized a second time.
C16_OneWayLifecycle ==
    [][ /\ lastOp'.op = "publish" => pubState[lastOp'.obj] = "active"
        /\ lastOp'.op \in {"take", "Subscription::take"} => subState[lastOp'.obj] = "active"
        /\ lastOp'.op = "Context::ok" => ctxState[lastOp'.obj] = "active"
        /\ \A c \in Ctxs :
               /\ ctxState'[c] # "shutdown_again"
               /\ ctxState[c] # "none" /\ ctxState'[c] = "active" => ctxState[c] = "active"
        /\ \A n \in Nodes :
               /\ nodeFiniAt'[n] # "again"
               /\ nodeState[n] = "finalized" => nodeState'[n] = "finalized"
               /\ nodeState[n] = "none" /\ nodeState'[n] = "active" =>
                      ctxState[nodeCtx'[n]] = "active"
        /\ \A p \in Pubs :
               /\ pubFiniAt'[p] # "again"
               /\ pubState[p] = "finalized" => pubState'[p] = "finalized"
               /\ pubState[p] = "none" /\ pubState'[p] = "active" =>
                      nodeState[pubNode'[p]] = "active"
        /\ \A s \in Subs :
               /\ subFiniAt'[s] # "again"
               /\ subState[s] = "finalized" => subState'[s] = "finalized"
               /\ subState[s] = "none" /\ subState'[s] = "active" =>
                      nodeState[subNode'[s]] = "active" ]_vars

\* A take on a subscription that is active and held by one handle, next to a
\* subscription that has been finalized.
C16_Witness ==
    /\ lastOp.op = "take"
    /\ subState[lastOp.obj] = "active" /\ subApp[lastOp.obj] = 1
    /\ \E s \in Subs : s # lastOp.obj /\ subState[s] = "finalized"

\* The application holds no Context, Node, Publisher or Subscription handle.
AllDropped ==
    /\ \A c \in Ctxs : ~ctxObj[c]
    /\ \A n \in Nodes : ~nodeObj[n]
    /\ \A p \in Pubs : ~pubObj[p]
    /\ \A s \in Subs : subApp[s] = 0

\* C17: once the application has dropped every handle it holds, in any order,
\* every native resource whose init succeeded has been finalized exactly
\* once; the weak registry entries keep nothing alive.
C17_AllFinalizedAfterDrops ==
    AllDropped =>
        /\ \A c \in Ctxs : ctxState[c] \in {"none", "shutdown", "zero_shutdown"}
        /\ \A n \in Nodes : nodeState[n] \in {"none", "finalized"} /\ nodeFiniAt[n] # "again"
        /\ \A p \in Pubs : pubState[p] \in {"none", "finalized"} /\ pubFiniAt[p] # "again"
        /\ \A s \in Subs : subState[s] \in {"none", "finalized"} /\ subFiniAt[s] # "again"
        /\ \A c \in Ctxs : ctxStrong[c] = 0
        /\ \A n \in Nodes : nodeStrong[n] = 0

\* Everything was created and dropped; the last drop ran the fini of the
\* publisher's node.
C17_Witness ==
    /\ AllDropped
    /\ \E p \in Pubs : pubState[p] = "finalized" /\ lastOp.op = "NodeHandle::drop"
                          /\ lastOp.obj = pubNode[p] /\ ctxState[nodeCtx[pubNode[p]]] = "shutdown"
    /\ \E s \in Subs : subState[s] = "finalized"

\* A name and a namespace that validation accepts: the namespace is empty,
\* or valid as it is, or valid once the leading separator is put before it.
Accepted(name, ns) ==
    /\ rmw_validate_node_name(name)
    /\ ns = <<>> \/ rmw_validate_namespace(ns) \/ rmw_validate_namespace(<<"/">> \o ns)

\* The namespace every node was created with is "/" when the namespace
\* given was empty and otherwise begins with "/", one lacking the leading
\* separator being prefixed with it; Node::new gives the empty namespace.
NamespacesNormalized ==
    /\ \A n \in Nodes : nodeState[n] # "none" =>
           /\ nodeNs[n].arg = <<>> => nodeNs[n].eff = <<"/">>
           /\ Head(nodeNs[n].eff) = "/"
           /\ nodeNs[n].arg # <<>> /\ Head(nodeNs[n].arg) # "/" =>
                  nodeNs[n].eff = <<"/">> \o nodeNs[n].arg
    /\ (lastOp.op = "Node::new" /\ lastOp.tag = "Ok") =>
           nodeNs[lastOp.obj].arg = <<>> /\ nodeNs[lastOp.obj].eff = <<"/">>

C19_DropLeavesSiblings ==
    [][ /\ \A a \in Subs : subApp'[a] < subApp[a] =>
               /\ \A b \in Subs \ {a} :
                      /\ subState'[b] = subState[b] /\ subStrong'[b] = subStrong[b]
                      /\ subApp'[b] = subApp[b] /\ subFiniAt'[b] = subFiniAt[b]
               /\ nodeSubs' = nodeSubs
        /\ lastOp'.op = "dispatch" =>
               /\ \A a \in RegistrySet(lastOp'.obj) : ~WeakUpgrade(a) =>
                      /\ a \notin lastOp'.took \cup lastOp'.called
                      /\ \A i \in DOMAIN nodeSubs'[lastOp'.obj] : nodeSubs'[lastOp'.obj][i] # a
               /\ lastOp'.tag = "Ok" =>
                      lastOp'.called = lastOp'.pending /\ lastOp'.took = LiveSet(lastOp'.obj)
               /\ lastOp'.tag = "Err" => lastOp'.took # {} /\ lastOp'.took \subseteq LiveSet(lastOp'.obj)
      ]_vars

\* A pass over a node with a dropped subscription A and a live subscription B
\* that had a message pending: B was called, the pass reported no fault and
\* A's entry is gone.
C19_Witness ==
    /\ lastOp.op = "dispatch" /\ lastOp.tag = "Ok"
    /\ \E a, b \in Subs :
           /\ a # b /\ subNode[a] = lastOp.obj /\ subNode[b] = lastOp.obj
           /\ subState[a] = "finalized" /\ subState[b] = "active"
           /\ lastOp.called = {b} /\ lastOp.pending = {b}
           /\ nodeSubs[lastOp.obj] = <<b>>

\* The three outcomes a take can report to its caller: Ok(true) / Ok(()) is
\* success, Ok(false) is empty, Err(_) is a fault.
Classify(tag, val) ==
    IF tag = "Err" THEN "fault" ELSE IF val = "false" THEN "empty" ELSE "success"

\* C20: the typed Subscription::take and the type-erased
\* SubscriptionBase::take, given the same native take status, classify the
\* outcome alike (success, empty, fault), populate the caller's message from
\* the native representation only when the native take succeeded, and release
\* the native representation exactly once.
C20_TypedTakeRefinesBaseTake ==
    lastOp.op \in {"take", "Subscription::take"} =>
        LET b == TakeOutcome(lastOp.native)
            t == TypedTakeOutcome(lastOp.native)
        IN /\ Classify(lastOp.tag, lastOp.val) = Classify(b.tag, b.val)
           /\ Classify(lastOp.tag, lastOp.val) = Classify(t.tag, t.val)
           /\ lastOp.read = (lastOp.native = "Ok")
           /\ b.read = t.read
           /\ lastOp.obtained = 1 /\ lastOp.released = 1

\* C21: while a Context object obtained from a successful creation is alive
\* its native context is valid, and every Context::ok call on it returns
\* Ok(true), never an error, whatever node creations and drops of nodes,
\* publishers and subscriptions came before.
C21_ValidWhileAlive ==
    /\ \A c \in Ctxs : ctxObj[c] => rcl_context_is_valid(ctxState[c]) = "true"
    /\ lastOp.op = "Context::ok" => lastOp.tag = "Ok" /\ lastOp.val = "true"

\* Context::ok called after a node of the context and a subscription of that
\* node were created and finalized.
C21_Witness ==
    /\ lastOp.op = "Context::ok" /\ lastOp.val = "true"
    /\ \E n \in Nodes, s \in Subs :
           /\ nodeCtx[n] = lastOp.obj /\ nodeState[n] = "finalized"
           /\ subNode[s] = n /\ subState[s] = "finalized"

\* C26: a successful create_subscription appends exactly one non-owning
\* entry for the new subscription to the end of the node's registry and
\* returns a strong handle; one whose native init fails returns the error and
\* leaves every registry, its entries and their order as they were.
C26_CreateSubscriptionAppends ==
    [][ lastOp'.op = "create_subscription" =>
          IF lastOp'.tag = "Ok"
          THEN LET s == lastOp'.obj
                   n == subNode'[s]
               IN /\ subState[s] = "none" /\ subState'[s] = "active"
                  /\ nodeSubs'[n] = nodeSubs[n] \o <<s>>
                  /\ \A m \in Nodes \ {n} : nodeSubs'[m] = nodeSubs[m]
                  /\ subApp'[s] = 1 /\ subStrong'[s] = 1
          ELSE /\ lastOp'.tag = "Err" /\ lastOp'.val = lastOp'.native
               /\ nodeSubs' = nodeSubs
               /\ subApp' = subApp /\ subStrong' = subStrong /\ subState' = subState
      ]_vars

\* The second subscription of a node was created: its entry follows the
\* first one's.
C26_Witness ==
    /\ lastOp.op = "create_subscription" /\ lastOp.tag = "Ok"
    /\ Len(nodeSubs[subNode[lastOp.obj]]) = 2
    /\ nodeSubs[subNode[lastOp.obj]][2] = lastOp.obj

\* C27: dead registry entries are removed lazily: dropping the last strong
\* handle of a subscription leaves every registry as it was, and a dispatch
\* pass removes the entries that no longer resolve and keeps the others in
\* order, so that after a pass the registry holds live subscriptions only.
C27_LazyPruning ==
    [][ /\ \A s \in Subs : (subStrong[s] > 0 /\ subStrong'[s] = 0) => nodeSubs' = nodeSubs
        /\ lastOp'.op = "dispatch" =>
               LET n == lastOp'.obj IN
               /\ nodeSubs'[n] = SelectSeq(nodeSubs[n], LAMBDA s : subStrong[s] > 0)
               /\ \A i \in DOMAIN nodeSubs'[n] :
                      subStrong'[nodeSubs'[n][i]] > 0 /\ subState'[nodeSubs'[n][i]] = "active"
      ]_vars

\* A pass over a node whose only subscription had been dropped: nothing was
\* polled and the registry is empty.
C27_Witness ==
    /\ lastOp.op = "dispatch" /\ lastOp.took = {}
    /\ nodeSubs[lastOp.obj] = <<>>
    /\ \E s \in Subs : subNode[s] = lastOp.obj /\ subState[s] = "finalized"

\* C28: for a subscription of any message type, the buffer its own
\* create_message produces, passed to its callback_fn, leads to exactly one
\* invocation of the stored callback, with that message, and to no failure:
\* the buffer has the type the callback dispatch expects.
C28_OwnBufferDispatches ==
    lastOp.op = "callback_fn" =>
        /\ lastOp.tag = "Ok"
        /\ lastOp.arg.message.type = lastOp.arg.T
        /\ lastOp.res = <<lastOp.arg.message>>
        /\ lastOp.called = {lastOp.obj}

C28_Witness ==
    /\ lastOp.op = "callback_fn" /\ lastOp.arg.T = "T2"
    /\ Len(lastOp.res) = 1 /\ subState[lastOp.obj] = "active"

\* C30: a native finalization call (rcl_shutdown, rcl_node_fini,
\* rcl_publisher_fini, rcl_subscription_fini) is issued only on a resource
\* whose native init succeeded: a construction that fails at native init
\* finalizes nothing.
C30_NoFiniAfterFailedInit ==
    [][ (lastOp'.op \in {"Context::default", "Node::new", "Node::new_with_namespace",
                         "Publisher::new", "Subscription::new", "create_subscription"}
         /\ lastOp'.native # "Ok") =>
            /\ ctxState' = ctxState /\ nodeState' = nodeState
            /\ pubState' = pubState /\ subState' = subState
            /\ nodeFiniAt' = nodeFiniAt /\ pubFiniAt' = pubFiniAt /\ subFiniAt' = subFiniAt
      ]_vars

\* ---------------------------------------------------- claims (SpecData)
\* The native variant that carries the same name as a policy variant.
SameName ==
    {<<"SystemDefault", "SYSTEM_DEFAULT">>, <<"KeepLast", "KEEP_LAST">>, <<"KeepAll", "KEEP_ALL">>,
     <<"Reliable", "RELIABLE">>, <<"BestEffort", "BEST_EFFORT">>,
     <<"TransientLocal", "TRANSIENT_LOCAL">>, <<"Volatile", "VOLATILE">>}
NativeVariant ==
    [history |-> [SYSTEM_DEFAULT |-> "RMW_QOS_POLICY_HISTORY_SYSTEM_DEFAULT",
                  KEEP_LAST |-> "RMW_QOS_POLICY_HISTORY_KEEP_LAST",
                  KEEP_ALL |-> "RMW_QOS_POLICY_HISTORY_KEEP_ALL"],
     reliability |-> [SYSTEM_DEFAULT |-> "RMW_QOS_POLICY_RELIABILITY_SYSTEM_DEFAULT",
                      RELIABLE |-> "RMW_QOS_POLICY_RELIABILITY_RELIABLE",
                      BEST_EFFORT |-> "RMW_QOS_POLICY_RELIABILITY_BEST_EFFORT"],
     durability |-> [SYSTEM_DEFAULT |-> "RMW_QOS_POLICY_DURABILITY_SYSTEM_DEFAULT",
                     TRANSIENT_LOCAL |-> "RMW_QOS_POLICY_DURABILITY_TRANSIENT_LOCAL",
                     VOLATILE |-> "RMW_QOS_POLICY_DURABILITY_VOLATILE"]]
\* The native variant of field f named like the policy variant v.
Named(f, v) == NativeVariant[f][(CHOOSE p \in SameName : p[1] = v)[2]]
\* The usize held in the limbs is the integer v.
UsizeEquals(limbs, v) == limbs[1] = v /\ \A i \in 2..Len(limbs) : limbs[i] = 0

\* C22: the conversion of a QoSProfile to the native structure copies every
\* field unchanged: history, reliability and durability become the native
\* variant of the same name, avoid_ros_namespace_conventions is equal and
\* the native depth is the profile's depth, for negative depths too.
C22_QoSFieldForField ==
    lastOp.op = "QoSProfile::into" =>
        /\ lastOp.res.history = Named("history", lastOp.arg.history)
        /\ lastOp.res.reliability = Named("reliability", lastOp.arg.reliability)
        /\ lastOp.res.durability = Named("durability", lastOp.arg.durability)
        /\ lastOp.res.avoid_ros_namespace_conventions = lastOp.arg.avoid_ros_namespace_conventions
        /\ UsizeEquals(lastOp.res.depth, lastOp.arg.depth)

\* The number of 8-bit characters and of 16-bit characters a string needs.
RECURSIVE Chars8(_)
Chars8(s) ==
    IF s = <<>> THEN 0
    ELSE (IF Head(s) < 128 THEN 1 ELSE IF Head(s) < 2048 THEN 2
          ELSE IF Head(s) < 65536 THEN 3 ELSE 4) + Chars8(Tail(s))
RECURSIVE Chars16(_)
Chars16(s) == IF s = <<>> THEN 0 ELSE (IF Head(s) < 65536 THEN 1 ELSE 2) + Chars16(Tail(s))

\* C23: BoundedString<N>::try_from(s) succeeds exactly when s has at most N
\* 8-bit characters and otherwise returns StringExceedsBoundsError with s's
\* length and N; a value from try_from, default or clone holds at most N
\* characters, and a constructed value converts back to the original string.
C23_BoundedStringWithinBound ==
    /\ lastOp.op = "BoundedString::try_from" =>
           /\ lastOp.tag = "Ok" <=> Chars8(lastOp.arg.s) <= lastOp.arg.bound
           /\ lastOp.tag = "Err" =>
                  lastOp.res = [len |-> Chars8(lastOp.arg.s), upper_bound |-> lastOp.arg.bound]
    /\ (lastOp.op \in {"BoundedString::try_from", "BoundedString::default",
                        "BoundedString::clone"} /\ lastOp.tag = "Ok") =>
           /\ lastOp.res.size <= lastOp.arg.bound
           /\ Len(StringDeref(lastOp.res)) = lastOp.res.size
           /\ StringToString(lastOp.res) = lastOp.arg.s

\* The clone of a BoundedString built from a string with a character outside
\* ASCII that fills the bound exactly.
C23_Witness ==
    /\ lastOp.op = "BoundedString::clone"
    /\ lastOp.res.size = lastOp.arg.bound
    /\ \E i \in DOMAIN lastOp.arg.s : lastOp.arg.s[i] > 127

\* C24: BoundedWString<N>::try_from(s) succeeds exactly when s, encoded as
\* 16-bit characters, has at most N characters, strings with characters
\* outside ASCII included; otherwise it returns StringExceedsBoundsError.
C24_BoundedWStringWithinBound ==
    lastOp.op = "BoundedWString::try_from" =>
        /\ lastOp.tag = "Ok" <=> Chars16(lastOp.arg.s) <= lastOp.arg.bound
        /\ lastOp.tag = "Ok" => lastOp.res.size = Chars16(lastOp.arg.s)
        /\ lastOp.tag = "Err" => lastOp.res.upper_bound = lastOp.arg.bound

\* ---------------------------------------------------- claims (SpecConc)
\* Threads inside a native call issued under a guard of object `obj`.
InNative(places, obj) == {t \in Threads : pc[t] \in places /\ tgt[t] = obj}

\* C9: for every context, node, publisher and subscription, at most one thread
\* at a time is inside a native call issued through that resource's guard,
\* and that thread holds the guard.
C9_GuardSerializesNativeCalls ==
    /\ \A c \in Ctxs : \A t \in InNative({"ok_native", "node_native"}, c) :
           InNative({"ok_native", "node_native"}, c) = {t} /\ ctxLock[c] = t
    /\ \A n \in Nodes : \A t \in InNative({"pubnew_native"}, n) :
           InNative({"pubnew_native"}, n) = {t} /\ nodeLock[n] = t
    /\ \A p \in Pubs : \A t \in InNative({"publish_native"}, p) :
           InNative({"publish_native"}, p) = {t} /\ pubLock[p] = t
    /\ \A s \in Subs : \A t \in InNative({"take_native", "ttake_native"}, s) :
           InNative({"take_native", "ttake_native"}, s) = {t} /\ subLock[s] = t

\* A second thread waits for the guard of the publisher a first thread is
\* publishing on.
C9_Witness ==
    \E t1, t2 \in Threads :
        /\ t1 # t2
        /\ pc[t1] = "publish_native" /\ pc[t2] = "publish_lock"
        /\ tgt[t1] = tgt[t2]
        /\ ~MutexFree(pubLock[tgt[t2]])

\* C10: for every subscription at most one invocation of its stored callback
\* is executing at any time; callbacks of different subscriptions can be
\* executing at the same time.
C10_OneCallbackPerSubscription ==
    \A s \in Subs : Cardinality({t \in Threads : pc[t] = "cb_run" /\ tgt[t] = s}) <= 1

C10_Witness ==
    \E t1, t2 \in Threads :
        /\ pc[t1] = "cb_run" /\ pc[t2] = "cb_run"
        /\ tgt[t1] # tgt[t2]

\* ---------------------------------------------------- claims (SpecLife)
\* The thread holding the guard that thread `t` is waiting for (0 when `t`
\* is not waiting, the guard is free or the application holds it).
Holder(t) ==
    CASE pc[t] \in {"init_lock", "ok_lock", "node_lock"} -> ctxLock[tgt[t]]
      [] pc[t] \in {"pubnew_lock", "subnew_lock", "csub_lock"} -> nodeLock[NodeGuard(tgt[t])]
      [] pc[t] = "pubdrop_lock" -> nodeLock[NodeGuard(pubNode[tgt[t]])]
      [] pc[t] = "subdrop_lock" -> nodeLock[NodeGuard(subNode[tgt[t]])]
      [] pc[t] = "publish_lock" -> pubLock[tgt[t]]
      [] pc[t] \in {"take_lock", "ttake_lock"} ->
             IF subLock[SubscriptionGuard(tgt[t])] \in Threads
             THEN subLock[SubscriptionGuard(tgt[t])] ELSE 0
      [] pc[t] = "cb_lock" -> cbLock[tgt[t]]
      [] OTHER -> 0

\* The object the operation of thread `t` is on; an object under construction
\* is distinct from every other object.
OpObject(t) ==
    CASE pc[t] \in {"init_lock", "init_native", "initfini_native"} -> <<"new context", t>>
      [] pc[t] \in {"node_lock", "node_native"} -> <<"new node", t>>
      [] pc[t] \in {"pubnew_lock", "pubnew_native"} -> <<"new publisher", t>>
      [] pc[t] \in {"subnew_lock", "subnew_native", "csub_lock", "csub_native"} ->
             <<"new subscription", t>>
      [] pc[t] \in {"publish_lock", "publish_native", "pubdrop_lock", "pubdrop_native"} ->
             <<"publisher", tgt[t]>>
      [] pc[t] \in TakePlaces \cup {"subdrop_lock", "subdrop_native"} -> <<"subscription", tgt[t]>>
      [] pc[t] \in {"ok_lock", "ok_native"} -> <<"context", tgt[t]>>
      [] OTHER -> <<"none", 0>>

\* The node whose guard an endpoint creation or drop takes.
ParentNode(t) ==
    CASE pc[t] \in {"pubnew_lock", "pubnew_native", "subnew_lock", "subnew_native",
                    "csub_lock", "csub_native"} -> tgt[t]
      [] pc[t] \in {"pubdrop_lock", "pubdrop_native"} -> pubNode[tgt[t]]
      [] pc[t] \in {"subdrop_lock", "subdrop_native"} -> subNode[tgt[t]]
      [] OTHER -> 0

EndpointLockPlaces == {"pubnew_lock", "subnew_lock", "csub_lock", "pubdrop_lock", "subdrop_lock"}
EndpointNativePlaces ==
    {"pubnew_native", "subnew_native", "csub_native", "pubdrop_native", "subdrop_native"}

\* C11 (as stated): operations on two different objects never block each
\* other: no create, publish, take or drop on one object waits for a guard
\* held by an operation on another object, also when both objects belong to
\* the same node or context.
C11_Original ==
    \A t \in Threads : Holder(t) # 0 => OpObject(Holder(t)) = OpObject(t)

\* C11 (amended): a publish, a take or a callback waits only for an
\* operation on the same publisher or subscription; creating or dropping a
\* publisher or subscription waits only for the creation or drop of an
\* endpoint of the same node (the node's guard); creating a node or checking
\* the validity of a context waits only for a node creation or validity
\* check on the same context (the context's guard); creating a context waits
\* for nothing.
C11_ContentionOnlyThroughParent ==
    \A t \in Threads : Holder(t) # 0 =>
        LET u == Holder(t) IN
        /\ pc[t] \in {"publish_lock", "take_lock", "ttake_lock", "cb_lock"} =>
               OpObject(u) = OpObject(t)
        /\ pc[t] \in EndpointLockPlaces =>
               pc[u] \in EndpointNativePlaces /\ ParentNode(u) = ParentNode(t)
        /\ pc[t] \in {"node_lock", "ok_lock"} =>
               pc[u] \in {"ok_native", "node_native"} /\ tgt[u] = tgt[t]
        /\ pc[t] # "init_lock"

\* A thread dropping a subscription waits for the node guard held by a
\* thread creating a publisher on the same node.
C11_Witness ==
    \E t, u \in Threads :
        /\ pc[t] = "subdrop_lock" /\ pc[u] = "pubnew_native"
        /\ Holder(t) = u
        /\ subNode[tgt[t]] = tgt[u]

EndpointCalls(n) ==
    {t \in Threads : \/ pc[t] \in {"pubnew_native", "subnew_native", "csub_native"} /\ tgt[t] = n
                     \/ pc[t] = "pubdrop_native" /\ pubNode[tgt[t]] = n
                     \/ pc[t] = "subdrop_native" /\ subNode[tgt[t]] = n}
NodeCalls(c) ==
    {t \in Threads : \/ pc[t] = "node_native" /\ tgt[t] = c
                     \/ pc[t] \in {"nodefini_native", "epfini_native"} /\ nodeCtx[tgt[t]] = c}

\* C25: native init and fini of a child run under the parent's guard
\* (node-init under the context's; publisher-init, subscription-init,
\* publisher-fini and subscription-fini under the owning node's), so no two
\* threads are at once inside native calls that create or finalize children
\* of the same parent.
C25_ChildCallsUnderParentGuard ==
    /\ \A n \in Nodes : \A t \in EndpointCalls(n) : nodeLock[n] = t /\ EndpointCalls(n) = {t}
    /\ \A c \in Ctxs : \A t \in NodeCalls(c) :
           /\ pc[t] = "node_native" => ctxLock[c] = t
           /\ NodeCalls(c) = {t}

\* The guards thread `t` holds.
HeldGuards(t) ==
    {<<"context", c>> : c \in {x \in Ctxs : ctxLock[x] = t}}
    \cup {<<"node", n>> : n \in {x \in Nodes : nodeLock[x] = t}}
    \cup {<<"publisher", p>> : p \in {x \in Pubs : pubLock[x] = t}}
    \cup {<<"subscription", s>> : s \in {x \in Subs : subLock[x] = t}}
    \cup {<<"callback", s>> : s \in {x \in Subs : cbLock[x] = t}}
LockPlaces ==
    {"init_lock", "ok_lock", "node_lock", "publish_lock", "take_lock", "ttake_lock", "cb_lock"}
    \cup EndpointLockPlaces

\* No operation takes a second guard while it holds one: a thread waiting
\* for a guard holds none, a thread holds at most one, an idle thread none.
NoNestedGuards ==
    \A t \in Threads :
        /\ Cardinality(HeldGuards(t)) <= 1
        /\ pc[t] \in LockPlaces \cup {"idle"} => HeldGuards(t) = {}

\* Thread `t` waits for the guard of a subscription that no operation holds:
\* the application took it with SubscriptionHandle::lock and has it still.
WaitsForApplication(t) ==
    /\ pc[t] \in {"take_lock", "ttake_lock"}
    /\ subLock[SubscriptionGuard(tgt[t])] = AppHolder

\* No further operation is started.
NoFurtherStart == \A u \in Threads : ~BeginStep(u)

====
